---- MODULE Spec2Model ----
(***************************************************************************)
(* Attempt lifecycle and grading of the quiz server (quiz/views.py,        *)
(* quiz/models.py, quiz/serializers.py).                                   *)
(*                                                                         *)
(* Every request is served by a worker.  The project runs Django in        *)
(* autocommit mode (settings.py sets no ATOMIC_REQUESTS, the views open no *)
(* transaction and take no row lock), so each ORM call of a view is one    *)
(* atomic step on the database and the steps of concurrent requests        *)
(* interleave freely.  What a view holds between two ORM calls (the local  *)
(* variables quiz, attempt, now, final_score) lives in the worker's frame. *)
(***************************************************************************)
EXTENDS Integers, Sequences, FiniteSets, TLC

\* ------------------------------------------------------------------ bounds
\* The clock runs 0..MaxTime.
MaxTime == 1
\* At most MaxRequests requests are issued in one behaviour.
MaxRequests == 3

\* ------------------------------------------------------------- fixed data
\* None of a nullable column (submitted_at, score) and of an absent row.
NULL == -1

Users == {"u1", "u2"}
Quizzes == {"qa", "qb"}
\* Concurrent request handlers.
Workers == {"w1", "w2"}

\* Quiz.creator, initiates_on, ends_on: written at creation, never updated
\* by the attempt views.
creator == [q \in Quizzes |-> IF q = "qa" THEN "u1" ELSE "u2"]
initiates_on == [q \in Quizzes |-> IF q = "qa" THEN -1 ELSE 1]
ends_on == [q \in Quizzes |-> IF q = "qa" THEN 0 ELSE 2]

\* Quiz.time_limit_minutes, in clock steps: no view reads it.  With the limit
\* 0 any attempt that is open one step after its start is over the limit.
time_limit_minutes == [q \in Quizzes |-> 0]

\* Question ids a client may name; "zz" is the id of no question.
QuestionIds == {"a1", "a2", "b1", "zz"}
\* The Question table of the deployment under study: a1 and a2 belong to
\* "qa", b1 to "qb".  Only the fields the attempt views read are kept.
Question ==
    {[question_id |-> "a1", quiz |-> "qa", answer |-> 2],
     [question_id |-> "a2", quiz |-> "qa", answer |-> 4],
     [question_id |-> "b1", quiz |-> "qb", answer |-> 2]}

\* Values a client may send as selected_option (0 and 5 are out of range).
SelectedOptionInputs == {0, 2, 4, 5}

\* The options that are the answer of some question.
AnswerInputs == {2, 4}

\* Attempt.responses: a dict question_id -> selected_option.  NoAnswer marks
\* a key that is not in the dict.
NoAnswer == 0

\* A stored JSON value that is not a number (a string such as "abc", null).
NonNumeric == -2
EmptyResponses == [qid \in QuestionIds |-> NoAnswer]

NoAttempt ==
    [attempt_id |-> 0, user |-> "", quiz |-> "", responses |-> EmptyResponses,
     started_at |-> NULL, submitted_at |-> NULL, score |-> NULL]

NoFrame ==
    [quiz |-> [quiz_id |-> "", is_active |-> FALSE, user_scores |-> <<>>],
     now |-> NULL, attempt |-> NoAttempt, final_score |-> NULL,
     already_submitted |-> FALSE]

NoRequest ==
    [view |-> "", user |-> "", quiz_id |-> "", question_id |-> "",
     selected_option |-> 0, user_id |-> "", at |-> NULL, prior |-> {},
     cached |-> FALSE]

NoResponse == [status |-> "", data |-> <<>>]

VARIABLES
    now,              \* timezone.now()
    Quiz_rows,        \* Quiz rows stored by QuizCreateView, with their window
    Question_objects, \* Question table: rows [question_id, quiz, answer]
    Quiz_objects,     \* Quiz table: quiz_id -> [is_active, user_scores]
    Attempt_objects,  \* Attempt table: (user, quiz) -> rows in primary-key order
    cache,            \* django cache: quiz_id -> cached question list
    pc,               \* worker -> position in the view it runs
    request,          \* worker -> the request it serves
    frame,            \* worker -> local variables of the view
    response,         \* worker -> the response of its last finished request
    issued            \* number of requests issued so far

vars ==
    <<now, Quiz_rows, Question_objects, Quiz_objects, Attempt_objects, cache, pc, request, frame, response,
      issued>>

\* ------------------------------------------------------------ ORM helpers
Pairs == Users \X Quizzes

\* Attempt.is_submitted
is_submitted(attempt) == attempt.submitted_at # NULL

\* Attempt.objects.filter(user=user, quiz=quiz).first(): a queryset without
\* ordering is ordered by primary key; the row with the least key, or None.
AttemptFirst(user, quiz) ==
    IF Attempt_objects[<<user, quiz>>] = <<>>
    THEN NoAttempt
    ELSE Head(Attempt_objects[<<user, quiz>>])

\* All rows of the Attempt table.
AllAttempts ==
    UNION {{Attempt_objects[p][i] : i \in 1..Len(Attempt_objects[p])} : p \in Pairs}

\* Attempt.objects.filter(quiz=quiz)
AttemptsOfQuiz(quiz) == {a \in AllAttempts : a.quiz = quiz}

\* Quiz.objects.get(quiz_id=quiz_id): the row as loaded into a model instance.
QuizGet(quiz_id) ==
    [quiz_id |-> quiz_id,
     is_active |-> Quiz_objects[quiz_id].is_active,
     user_scores |-> Quiz_objects[quiz_id].user_scores]

\* A sequence with x inserted so that it becomes element i.
InsertAt(seq, i, x) == SubSeq(seq, 1, i - 1) \o <<x>> \o SubSeq(seq, i, Len(seq))

\* attempt_id = uuid4(): a fresh key.  Keys are numbered by creation; where the
\* new row falls in primary-key order is arbitrary (see StartCreate).
NextAttemptId == Cardinality(AllAttempts) + 1

\* instance.save(update_fields=[...]) of an Attempt: UPDATE ... WHERE pk = id
\* writes the named columns from the instance and leaves the others.
AttemptUpdate(rows, attempt, fields) ==
    [p \in Pairs |->
        [i \in 1..Len(rows[p]) |->
            IF rows[p][i].attempt_id = attempt.attempt_id
            THEN [f \in DOMAIN rows[p][i] |->
                    IF f \in fields THEN attempt[f] ELSE rows[p][i][f]]
            ELSE rows[p][i]]]

\* AttemptQuestionSerializer: a question without its quiz and answer fields.
AttemptQuestionSerializer(q) == [question_id |-> q.question_id]

\* quiz.questions.all()
QuizQuestions(quiz_id) == {q \in Question_objects : q.quiz = quiz_id}

\* Question.DoesNotExist
NoQuestion == [question_id |-> "", quiz |-> "", answer |-> NULL]

\* QuestionGet without the quiz filter: the row with this id, of any quiz.
QuestionGetAnyQuiz(question_id, quiz) ==
    LET rows == {q \in Question_objects : q.question_id = question_id}
    IN  IF rows = {} THEN NoQuestion ELSE CHOOSE q \in rows : TRUE

\* Question.objects.get(question_id=qid_str, quiz=quiz): question_id is the
\* primary key, so at most one row matches.
QuestionGet(question_id, quiz) ==
    LET rows == {q \in Question_objects : q.question_id = question_id /\ q.quiz = quiz}
    IN  IF rows = {} THEN NoQuestion ELSE CHOOSE q \in rows : TRUE

NoCache == [hit |-> FALSE, value |-> {}]

\* ------------------------------------------------------------------ Init
\* The Attempt table after every user has started quiz "qa" at time 0 (rows
\* as StartCreate writes them).
StartedAttempts ==
    [p \in Pairs |->
        IF p[2] = "qa"
        THEN <<[attempt_id |-> IF p[1] = "u1" THEN 1 ELSE 2, user |-> p[1],
                quiz |-> p[2], responses |-> EmptyResponses, started_at |-> 0,
                submitted_at |-> NULL, score |-> NULL]>>
        ELSE <<>>]

Init ==
    /\ now = 0
    /\ Quiz_rows = {}
    /\ Question_objects = Question
    /\ Quiz_objects = [q \in Quizzes |-> [is_active |-> TRUE, user_scores |-> <<>>]]
    /\ Attempt_objects \in {[p \in Pairs |-> <<>>], StartedAttempts}
    /\ cache = [q \in Quizzes |-> NoCache]
    /\ pc = [w \in Workers |-> "idle"]
    /\ request = [w \in Workers |-> NoRequest]
    /\ frame = [w \in Workers |-> NoFrame]
    /\ response = [w \in Workers |-> NoResponse]
    /\ issued = 0

\* ----------------------------------------------------------------- clock
Tick ==
    /\ now < MaxTime
    /\ now' = now + 1
    /\ UNCHANGED <<Quiz_rows, Question_objects, Quiz_objects, Attempt_objects, cache, pc, request, frame,
                   response, issued>>

\* The cached question list of a quiz expires (timeout = 3600), or the
\* request runs in a process whose local-memory cache never held it.
CacheExpire(q) ==
    /\ cache[q].hit
    /\ cache' = [cache EXCEPT ![q] = NoCache]
    /\ UNCHANGED <<Quiz_rows, Question_objects, now, Quiz_objects, Attempt_objects, pc, request, frame,
                   response, issued>>

\* ----------------------------------------------------- request plumbing
\* Workers are interchangeable: a request goes to w1 unless w1 is busy.
Free(w) ==
    /\ pc[w] \in {"idle", "done"}
    /\ w = "w2" => pc["w1"] \notin {"idle", "done"}
    /\ issued < MaxRequests

\* Attempt ids that finished successful starts of (user, quiz) have returned
\* and that are still on record when a new request arrives (history only).
PriorStarts(user, quiz) ==
    {response[v].data.attempt_id :
        v \in {x \in Workers : /\ pc[x] = "done"
                               /\ request[x].view = "AttemptStartView"
                               /\ request[x].user = user
                               /\ request[x].quiz_id = quiz
                               /\ response[x].status = "OK"}}

\* The worker a new request goes to.
Acceptor == IF pc["w1"] \in {"idle", "done"} THEN "w1" ELSE "w2"

\* The worker answers and the request is over.
Respond(w, status, data) ==
    /\ pc' = [pc EXCEPT ![w] = "done"]
    /\ response' = [response EXCEPT ![w] = [status |-> status, data |-> data]]
    /\ frame' = [frame EXCEPT ![w] = NoFrame]

Accept(w, req) ==
    /\ request' = [request EXCEPT ![w] = req]
    /\ issued' = issued + 1

\* ------------------------------------------------------ AttemptStartView
\* StartGetQuiz as the window policy of the spec describes it: a start that
\* finds the window expired also persists is_active = false.
StartGetQuizDeactivating(w, user, quiz_id) ==
    /\ Free(w)
    /\  LET quiz == QuizGet(quiz_id)
            req == [NoRequest EXCEPT !.view = "AttemptStartView", !.user = user,
                                     !.quiz_id = quiz_id, !.at = now,
                                     !.prior = PriorStarts(user, quiz_id)]
        IN  /\ Accept(w, req)
            /\ IF ~quiz.is_active
               THEN Respond(w, "Inactive", <<>>) /\ UNCHANGED Quiz_objects
               ELSE IF now > ends_on[quiz_id]
               THEN /\ Respond(w, "Ended", <<>>)
                    /\ Quiz_objects' = [Quiz_objects EXCEPT ![quiz_id].is_active = FALSE]
               ELSE /\ pc' = [pc EXCEPT ![w] = "start_attempt"]
                    /\ frame' = [frame EXCEPT ![w] =
                                   [NoFrame EXCEPT !.quiz = quiz]]
                    /\ response' = [response EXCEPT ![w] = NoResponse]
                    /\ UNCHANGED Quiz_objects
    /\ UNCHANGED <<Quiz_rows, Question_objects, now, Attempt_objects, cache>>

\* StartGetQuiz without the ends_on check of views.py 121.
StartGetQuizNoEndCheck(w, user, quiz_id) ==
    /\ Free(w)
    /\  LET quiz == QuizGet(quiz_id)
            req == [NoRequest EXCEPT !.view = "AttemptStartView", !.user = user,
                                     !.quiz_id = quiz_id, !.at = now,
                                     !.prior = PriorStarts(user, quiz_id)]
        IN  /\ Accept(w, req)
            /\ IF ~quiz.is_active
               THEN Respond(w, "Inactive", <<>>)
               ELSE /\ pc' = [pc EXCEPT ![w] = "start_attempt"]
                    /\ frame' = [frame EXCEPT ![w] =
                                   [NoFrame EXCEPT !.quiz = quiz]]
                    /\ response' = [response EXCEPT ![w] = NoResponse]
    /\ UNCHANGED <<Quiz_rows, Question_objects, now, Quiz_objects, Attempt_objects, cache>>

\* StartGetQuiz with the two checks of views.py 116-122 in the other order:
\* the window is checked before the flag.
StartGetQuizEndsFirst(w, user, quiz_id) ==
    /\ Free(w)
    /\  LET quiz == QuizGet(quiz_id)
            req == [NoRequest EXCEPT !.view = "AttemptStartView", !.user = user,
                                     !.quiz_id = quiz_id, !.at = now,
                                     !.prior = PriorStarts(user, quiz_id)]
        IN  /\ Accept(w, req)
            /\ IF now > ends_on[quiz_id]
               THEN Respond(w, "Ended", <<>>)
               ELSE IF ~quiz.is_active
               THEN Respond(w, "Inactive", <<>>)
               ELSE /\ pc' = [pc EXCEPT ![w] = "start_attempt"]
                    /\ frame' = [frame EXCEPT ![w] =
                                   [NoFrame EXCEPT !.quiz = quiz]]
                    /\ response' = [response EXCEPT ![w] = NoResponse]
    /\ UNCHANGED <<Quiz_rows, Question_objects, now, Quiz_objects, Attempt_objects, cache>>

\* StartGetQuiz with a lower bound on the window: a start before initiates_on
\* is refused.
StartGetQuizChecksInitiates(w, user, quiz_id) ==
    /\ Free(w)
    /\  LET quiz == QuizGet(quiz_id)
            req == [NoRequest EXCEPT !.view = "AttemptStartView", !.user = user,
                                     !.quiz_id = quiz_id, !.at = now,
                                     !.prior = PriorStarts(user, quiz_id)]
        IN  /\ Accept(w, req)
            /\ IF ~quiz.is_active
               THEN Respond(w, "Inactive", <<>>)
               ELSE IF now < initiates_on[quiz_id]
               THEN Respond(w, "NotStarted", <<>>)
               ELSE IF now > ends_on[quiz_id]
               THEN Respond(w, "Ended", <<>>)
               ELSE /\ pc' = [pc EXCEPT ![w] = "start_attempt"]
                    /\ frame' = [frame EXCEPT ![w] =
                                   [NoFrame EXCEPT !.quiz = quiz]]
                    /\ response' = [response EXCEPT ![w] = NoResponse]
    /\ UNCHANGED <<Quiz_rows, Question_objects, now, Quiz_objects, Attempt_objects, cache>>

\* views.py 108-122: load the quiz, check is_active, read the clock, check
\* ends_on.  The clock read of line 119 touches no shared row and follows the
\* query of line 111 directly, so it is taken in the same step as the query.
StartGetQuiz(w, user, quiz_id) ==
    /\ Free(w)
    /\  LET quiz == QuizGet(quiz_id)
            req == [NoRequest EXCEPT !.view = "AttemptStartView", !.user = user,
                                     !.quiz_id = quiz_id, !.at = now,
                                     !.prior = PriorStarts(user, quiz_id)]
        IN  /\ Accept(w, req)
            /\ IF ~quiz.is_active
               THEN Respond(w, "Inactive", <<>>)
               ELSE IF now > ends_on[quiz_id]
               THEN Respond(w, "Ended", <<>>)
               ELSE /\ pc' = [pc EXCEPT ![w] = "start_attempt"]
                    /\ frame' = [frame EXCEPT ![w] =
                                   [NoFrame EXCEPT !.quiz = quiz]]
                    /\ response' = [response EXCEPT ![w] = NoResponse]
    /\ UNCHANGED <<Quiz_rows, Question_objects, now, Quiz_objects, Attempt_objects, cache>>

\* StartGetAttempt without the is_submitted check of views.py 127: a
\* submitted attempt is resumed like an open one.
StartGetAttemptResumesSubmitted(w) ==
    /\ pc[w] = "start_attempt"
    /\ LET attempt == AttemptFirst(request[w].user, request[w].quiz_id)
       IN  /\ pc' = [pc EXCEPT ![w] =
                       IF attempt = NoAttempt THEN "start_create"
                                              ELSE "start_cache"]
           /\ frame' = [frame EXCEPT ![w].attempt = attempt]
           /\ UNCHANGED response
    /\ UNCHANGED <<Quiz_rows, Question_objects, now, Quiz_objects, Attempt_objects, cache, request, issued>>

\* views.py 125-130: look the attempt up, refuse a submitted one.
StartGetAttempt(w) ==
    /\ pc[w] = "start_attempt"
    /\ LET attempt == AttemptFirst(request[w].user, request[w].quiz_id)
       IN  IF attempt # NoAttempt /\ is_submitted(attempt)
           THEN Respond(w, "AlreadySubmitted", <<>>)
           ELSE /\ pc' = [pc EXCEPT ![w] =
                            IF attempt = NoAttempt THEN "start_create"
                                                   ELSE "start_cache"]
                /\ frame' = [frame EXCEPT ![w].attempt = attempt]
                /\ UNCHANGED response
    /\ UNCHANGED <<Quiz_rows, Question_objects, now, Quiz_objects, Attempt_objects, cache, request, issued>>

\* views.py 131: Attempt.objects.create(user, quiz).  started_at is
\* auto_now_add; the uuid4 key falls anywhere among the keys of the rows of
\* the same user and quiz.
StartCreate(w) ==
    /\ pc[w] = "start_create"
    /\ LET p == <<request[w].user, request[w].quiz_id>>
           attempt == [attempt_id |-> NextAttemptId, user |-> p[1], quiz |-> p[2],
                       responses |-> EmptyResponses, started_at |-> now,
                       submitted_at |-> NULL, score |-> NULL]
       IN  /\ \E i \in 1..(Len(Attempt_objects[p]) + 1) :
                Attempt_objects' =
                    [Attempt_objects EXCEPT ![p] = InsertAt(@, i, attempt)]
           /\ frame' = [frame EXCEPT ![w].attempt = attempt]
    /\ pc' = [pc EXCEPT ![w] = "start_cache"]
    /\ UNCHANGED <<Quiz_rows, Question_objects, now, Quiz_objects, cache, request, response, issued>>

\* StartCache with one cache key for every quiz in place of the key of
\* views.py 134.
StartCacheSharedKey(w) ==
    /\ pc[w] = "start_cache"
    /\ LET quiz_id == frame[w].quiz.quiz_id
           cache_key == "qa"
           cached_questions ==
               IF cache[cache_key].hit
               THEN cache[cache_key].value
               ELSE {AttemptQuestionSerializer(q) : q \in QuizQuestions(quiz_id)}
           attempt == frame[w].attempt
       IN  /\ cache' = [cache EXCEPT ![cache_key] =
                          [hit |-> TRUE, value |-> cached_questions]]
           /\ Respond(w, "OK",
                      [attempt_id |-> attempt.attempt_id,
                       quiz_id |-> attempt.quiz,
                       started_at |-> attempt.started_at,
                       responses |-> attempt.responses,
                       questions |-> cached_questions])
           /\ request' = [request EXCEPT ![w].cached = cache[cache_key].hit]
    /\ UNCHANGED <<Quiz_rows, Question_objects, now, Quiz_objects, Attempt_objects, issued>>

\* views.py 134-145: the question list from the cache under the key of the
\* quiz, filled on a miss; the response is the serialized attempt with the
\* cached list under "questions".  request.cached records whether the list
\* came from the cache (history only).
StartCache(w) ==
    /\ pc[w] = "start_cache"
    /\ LET quiz_id == frame[w].quiz.quiz_id
           cached_questions ==
               IF cache[quiz_id].hit
               THEN cache[quiz_id].value
               ELSE {AttemptQuestionSerializer(q) : q \in QuizQuestions(quiz_id)}
           attempt == frame[w].attempt
       IN  /\ cache' = [cache EXCEPT ![quiz_id] =
                          [hit |-> TRUE, value |-> cached_questions]]
           /\ Respond(w, "OK",
                      [attempt_id |-> attempt.attempt_id,
                       quiz_id |-> attempt.quiz,
                       started_at |-> attempt.started_at,
                       responses |-> attempt.responses,
                       questions |-> cached_questions])
           /\ request' = [request EXCEPT ![w].cached = cache[quiz_id].hit]
    /\ UNCHANGED <<Quiz_rows, Question_objects, now, Quiz_objects, Attempt_objects, issued>>

\* ------------------------------------------------------- AttemptSaveView
\* AttemptSaveSerializer: selected_option is an integer from 1 to 4.
ValidOption(selected_option) == selected_option >= 1 /\ selected_option <= 4

\* SaveGetAttempt with get_or_create in place of the lookup of views.py
\* 180-182: a missing attempt is created and the save goes on.
SaveGetAttemptCreatesMissing(w, user, quiz_id, question_id, selected_option) ==
    /\ Free(w)
    /\ Accept(w, [NoRequest EXCEPT !.view = "AttemptSaveView", !.user = user,
                                   !.quiz_id = quiz_id,
                                   !.question_id = question_id,
                                   !.selected_option = selected_option])
    /\ LET found == AttemptFirst(user, quiz_id)
           created == [attempt_id |-> NextAttemptId, user |-> user, quiz |-> quiz_id,
                       responses |-> EmptyResponses, started_at |-> now,
                       submitted_at |-> NULL, score |-> NULL]
           attempt == IF found = NoAttempt THEN created ELSE found
       IN  IF ~ValidOption(selected_option)
           THEN Respond(w, "InvalidOption", <<>>) /\ UNCHANGED Attempt_objects
           ELSE IF is_submitted(attempt)
           THEN Respond(w, "AlreadySubmitted", <<>>) /\ UNCHANGED Attempt_objects
           ELSE /\ pc' = [pc EXCEPT ![w] = "save_write"]
                /\ frame' = [frame EXCEPT ![w] = [NoFrame EXCEPT !.attempt = attempt]]
                /\ response' = [response EXCEPT ![w] = NoResponse]
                /\ Attempt_objects' =
                     IF found = NoAttempt
                     THEN [Attempt_objects EXCEPT ![<<user, quiz_id>>] = <<created>>]
                     ELSE Attempt_objects
    /\ UNCHANGED <<Quiz_rows, Question_objects, now, Quiz_objects, cache>>

\* SaveGetAttempt without the is_submitted check of views.py 185.
SaveGetAttemptNoSubmittedCheck(w, user, quiz_id, question_id, selected_option) ==
    /\ Free(w)
    /\ Accept(w, [NoRequest EXCEPT !.view = "AttemptSaveView", !.user = user,
                                   !.quiz_id = quiz_id,
                                   !.question_id = question_id,
                                   !.selected_option = selected_option])
    /\ LET attempt == AttemptFirst(user, quiz_id)
       IN  IF ~ValidOption(selected_option)
           THEN Respond(w, "InvalidOption", <<>>)
           ELSE IF attempt = NoAttempt
           THEN Respond(w, "AttemptNotFound", <<>>)
           ELSE /\ pc' = [pc EXCEPT ![w] = "save_write"]
                /\ frame' = [frame EXCEPT ![w] = [NoFrame EXCEPT !.attempt = attempt]]
                /\ response' = [response EXCEPT ![w] = NoResponse]
    /\ UNCHANGED <<Quiz_rows, Question_objects, now, Quiz_objects, Attempt_objects, cache>>

\* SaveGetAttempt without the validation of views.py 169-170: any integer of
\* the body goes on to the write.
SaveGetAttemptNoValidation(w, user, quiz_id, question_id, selected_option) ==
    /\ Free(w)
    /\ Accept(w, [NoRequest EXCEPT !.view = "AttemptSaveView", !.user = user,
                                   !.quiz_id = quiz_id,
                                   !.question_id = question_id,
                                   !.selected_option = selected_option])
    /\ LET attempt == AttemptFirst(user, quiz_id)
       IN  IF attempt = NoAttempt
           THEN Respond(w, "AttemptNotFound", <<>>)
           ELSE IF is_submitted(attempt)
           THEN Respond(w, "AlreadySubmitted", <<>>)
           ELSE /\ pc' = [pc EXCEPT ![w] = "save_write"]
                /\ frame' = [frame EXCEPT ![w] = [NoFrame EXCEPT !.attempt = attempt]]
                /\ response' = [response EXCEPT ![w] = NoResponse]
    /\ UNCHANGED <<Quiz_rows, Question_objects, now, Quiz_objects, Attempt_objects, cache>>

\* SaveGetAttempt with the admission check of AttemptStartView (views.py
\* 116-122) repeated on save: an inactive or ended quiz refuses the save.
SaveGetAttemptChecksWindow(w, user, quiz_id, question_id, selected_option) ==
    /\ Free(w)
    /\ Accept(w, [NoRequest EXCEPT !.view = "AttemptSaveView", !.user = user,
                                   !.quiz_id = quiz_id,
                                   !.question_id = question_id,
                                   !.selected_option = selected_option])
    /\ LET attempt == AttemptFirst(user, quiz_id)
       IN  IF ~ValidOption(selected_option)
           THEN Respond(w, "InvalidOption", <<>>)
           ELSE IF ~Quiz_objects[quiz_id].is_active
           THEN Respond(w, "Inactive", <<>>)
           ELSE IF now > ends_on[quiz_id]
           THEN Respond(w, "Ended", <<>>)
           ELSE IF attempt = NoAttempt
           THEN Respond(w, "AttemptNotFound", <<>>)
           ELSE IF is_submitted(attempt)
           THEN Respond(w, "AlreadySubmitted", <<>>)
           ELSE /\ pc' = [pc EXCEPT ![w] = "save_write"]
                /\ frame' = [frame EXCEPT ![w] = [NoFrame EXCEPT !.attempt = attempt]]
                /\ response' = [response EXCEPT ![w] = NoResponse]
    /\ UNCHANGED <<Quiz_rows, Question_objects, now, Quiz_objects, Attempt_objects, cache>>

\* views.py 169-186: validate the body, load the quiz, look the attempt up
\* and refuse a missing or submitted one.  Only the existence of the quiz is
\* read; deleting a quiz (QuizDeleteView) is outside the attempt lifecycle
\* modelled here, so the quiz exists and the read is folded into this step.
SaveGetAttempt(w, user, quiz_id, question_id, selected_option) ==
    /\ Free(w)
    /\ Accept(w, [NoRequest EXCEPT !.view = "AttemptSaveView", !.user = user,
                                   !.quiz_id = quiz_id,
                                   !.question_id = question_id,
                                   !.selected_option = selected_option])
    /\ LET attempt == AttemptFirst(user, quiz_id)
       IN  IF ~ValidOption(selected_option)
           THEN Respond(w, "InvalidOption", <<>>)
           ELSE IF attempt = NoAttempt
           THEN Respond(w, "AttemptNotFound", <<>>)
           ELSE IF is_submitted(attempt)
           THEN Respond(w, "AlreadySubmitted", <<>>)
           ELSE /\ pc' = [pc EXCEPT ![w] = "save_write"]
                /\ frame' = [frame EXCEPT ![w] = [NoFrame EXCEPT !.attempt = attempt]]
                /\ response' = [response EXCEPT ![w] = NoResponse]
    /\ UNCHANGED <<Quiz_rows, Question_objects, now, Quiz_objects, Attempt_objects, cache>>

\* Upsert that keeps the value a question already has.
UpsertKeepsFirst(responses, question_id, selected_option) ==
    IF responses[question_id] # NoAnswer THEN responses
    ELSE [responses EXCEPT ![question_id] = selected_option]

\* views.py 189: responses[question_id] = selected_option
Upsert(responses, question_id, selected_option) ==
    [responses EXCEPT ![question_id] = selected_option]

\* SaveWrite as an update of every attempt of the quiz
\* (Attempt.objects.filter(quiz=quiz).update(responses=...)) in place of the
\* save of the loaded instance.
SaveWriteAllOfQuiz(w) ==
    /\ pc[w] = "save_write"
    /\ LET responses == Upsert(frame[w].attempt.responses,
                               request[w].question_id, request[w].selected_option)
       IN  Attempt_objects' =
              [p \in Pairs |->
                  [i \in 1..Len(Attempt_objects[p]) |->
                      IF Attempt_objects[p][i].quiz = frame[w].attempt.quiz
                      THEN [Attempt_objects[p][i] EXCEPT !.responses = responses]
                      ELSE Attempt_objects[p][i]]]
    /\ Respond(w, "OK", <<>>)
    /\ UNCHANGED <<Quiz_rows, Question_objects, now, Quiz_objects, cache, request, issued>>

\* views.py 188-193: put the answer into the dict the view loaded and write
\* the whole responses column back.
SaveWrite(w) ==
    /\ pc[w] = "save_write"
    /\ LET responses == Upsert(frame[w].attempt.responses,
                               request[w].question_id, request[w].selected_option)
           attempt == [frame[w].attempt EXCEPT !.responses = responses]
       IN  Attempt_objects' = AttemptUpdate(Attempt_objects, attempt, {"responses"})
    /\ Respond(w, "OK", <<>>)
    /\ UNCHANGED <<Quiz_rows, Question_objects, now, Quiz_objects, cache, request, issued>>

\* ----------------------------------------------------- AttemptStatusView
\* views.py 216-224: load the quiz, read the clock.
StatusGetQuiz(w, user, quiz_id) ==
    /\ Free(w)
    /\ Accept(w, [NoRequest EXCEPT !.view = "AttemptStatusView", !.user = user,
                                   !.quiz_id = quiz_id])
    /\ pc' = [pc EXCEPT ![w] = "status_attempt"]
    /\ frame' = [frame EXCEPT ![w] =
                   [NoFrame EXCEPT !.quiz = QuizGet(quiz_id), !.now = now]]
    /\ response' = [response EXCEPT ![w] = NoResponse]
    /\ UNCHANGED <<Quiz_rows, Question_objects, now, Quiz_objects, Attempt_objects, cache>>

\* The body of the status response (views.py 235-241).
StatusData(quiz, quiz_ended, already_submitted, at) ==
    [is_active |-> quiz.is_active, quiz_ended |-> quiz_ended,
     already_submitted |-> already_submitted, now |-> at]

\* StatusGetAttempt without the deactivation of views.py 231-233: the flag of
\* the loaded quiz is reported as it is.
StatusGetAttemptNoDeactivation(w) ==
    /\ pc[w] = "status_attempt"
    /\ LET attempt == AttemptFirst(request[w].user, request[w].quiz_id)
           already_submitted ==
               IF attempt # NoAttempt THEN is_submitted(attempt) ELSE FALSE
           quiz == frame[w].quiz
           quiz_ended == frame[w].now > ends_on[quiz.quiz_id]
       IN  Respond(w, "OK",
                   StatusData(quiz, quiz_ended, already_submitted, frame[w].now))
    /\ UNCHANGED <<Quiz_rows, Question_objects, now, Quiz_objects, Attempt_objects, cache, request, issued>>

\* StatusGetAttempt that takes the quiz as ended from ends_on itself on
\* (now >= ends_on in place of the now > ends_on of views.py 229).
StatusGetAttemptEndsAtDeadline(w) ==
    /\ pc[w] = "status_attempt"
    /\ LET attempt == AttemptFirst(request[w].user, request[w].quiz_id)
           already_submitted ==
               IF attempt # NoAttempt THEN is_submitted(attempt) ELSE FALSE
           quiz == frame[w].quiz
           quiz_ended == frame[w].now >= ends_on[quiz.quiz_id]
       IN  IF quiz_ended /\ quiz.is_active
           THEN /\ pc' = [pc EXCEPT ![w] = "status_save"]
                /\ frame' = [frame EXCEPT ![w].already_submitted = already_submitted]
                /\ UNCHANGED response
           ELSE Respond(w, "OK",
                        StatusData(quiz, quiz_ended, already_submitted, frame[w].now))
    /\ UNCHANGED <<Quiz_rows, Question_objects, now, Quiz_objects, Attempt_objects, cache, request, issued>>

\* views.py 226-241: look the attempt up; when the quiz has ended and the
\* loaded row says active, the flag is written next, else answer.
StatusGetAttempt(w) ==
    /\ pc[w] = "status_attempt"
    /\ LET attempt == AttemptFirst(request[w].user, request[w].quiz_id)
           already_submitted ==
               IF attempt # NoAttempt THEN is_submitted(attempt) ELSE FALSE
           quiz == frame[w].quiz
           quiz_ended == frame[w].now > ends_on[quiz.quiz_id]
       IN  IF quiz_ended /\ quiz.is_active
           THEN /\ pc' = [pc EXCEPT ![w] = "status_save"]
                /\ frame' = [frame EXCEPT ![w].already_submitted = already_submitted]
                /\ UNCHANGED response
           ELSE Respond(w, "OK",
                        StatusData(quiz, quiz_ended, already_submitted, frame[w].now))
    /\ UNCHANGED <<Quiz_rows, Question_objects, now, Quiz_objects, Attempt_objects, cache, request, issued>>

\* StatusSave without the quiz.save of views.py 233.
StatusSaveSkipsWrite(w) ==
    /\ pc[w] = "status_save"
    /\ LET quiz == [frame[w].quiz EXCEPT !.is_active = FALSE]
       IN  Respond(w, "OK",
                   StatusData(quiz, TRUE, frame[w].already_submitted, frame[w].now))
    /\ UNCHANGED <<Quiz_rows, Question_objects, now, Quiz_objects, Attempt_objects, cache, request, issued>>

\* views.py 232-241: quiz.is_active = False; quiz.save(update_fields=["is_active"]).
StatusSave(w) ==
    /\ pc[w] = "status_save"
    /\ LET quiz == [frame[w].quiz EXCEPT !.is_active = FALSE]
       IN  /\ Quiz_objects' = [Quiz_objects EXCEPT ![quiz.quiz_id].is_active = quiz.is_active]
           /\ Respond(w, "OK",
                      StatusData(quiz, TRUE, frame[w].already_submitted, frame[w].now))
    /\ UNCHANGED <<Quiz_rows, Question_objects, now, Attempt_objects, cache, request, issued>>

\* ----------------------------------------------------- AttemptSubmitView
\* The keys of a responses dict in an order of iteration.
RECURSIVE SetToSeq(_)
SetToSeq(S) ==
    IF S = {} THEN <<>>
    ELSE LET x == CHOOSE y \in S : TRUE IN <<x>> \o SetToSeq(S \ {x})

Items(responses) == SetToSeq({qid \in QuestionIds : responses[qid] # NoAnswer})

\* GradeItems with negative marking: a wrong answer to a question of the quiz
\* takes one point off.
RECURSIVE GradeItemsNegativeMarking(_, _, _)
GradeItemsNegativeMarking(items, responses, quiz_id) ==
    IF items = <<>> THEN 0
    ELSE LET q == QuestionGet(Head(items), quiz_id)
             correct == GradeItemsNegativeMarking(Tail(items), responses, quiz_id)
         IN  IF q = NoQuestion THEN correct
             ELSE IF q.answer = responses[Head(items)] THEN correct + 1
             ELSE correct - 1

\* The loop of Attempt.grade, models.py 192-201, over the keys in the given
\* order: a key with no Question row of the quiz is skipped (DoesNotExist),
\* a key whose value is the row's answer counts one.
RECURSIVE GradeItems(_, _, _)
GradeItems(items, responses, quiz_id) ==
    IF items = <<>> THEN 0
    ELSE LET q == QuestionGet(Head(items), quiz_id)
             correct == GradeItems(Tail(items), responses, quiz_id)
         IN  IF q = NoQuestion THEN correct
             ELSE IF q.answer = responses[Head(items)] THEN correct + 1
             ELSE correct

\* Attempt.grade, models.py 190-201: the count the loop ends with.
GradeOf(responses, quiz_id) == GradeItems(Items(responses), responses, quiz_id)

\* views.py 262-268: load the quiz (with its user_scores list).
SubmitGetQuiz(w, user, quiz_id) ==
    /\ Free(w)
    /\ Accept(w, [NoRequest EXCEPT !.view = "AttemptSubmitView", !.user = user,
                                   !.quiz_id = quiz_id])
    /\ pc' = [pc EXCEPT ![w] = "submit_attempt"]
    /\ frame' = [frame EXCEPT ![w] = [NoFrame EXCEPT !.quiz = QuizGet(quiz_id)]]
    /\ response' = [response EXCEPT ![w] = NoResponse]
    /\ UNCHANGED <<Quiz_rows, Question_objects, now, Quiz_objects, Attempt_objects, cache>>

\* SubmitGetAttempt without the lookup check of views.py 272: a missing
\* attempt is graded and submitted like a found one.
SubmitGetAttemptNoLookupCheck(w) ==
    /\ pc[w] = "submit_attempt"
    /\ LET attempt == AttemptFirst(request[w].user, request[w].quiz_id)
       IN  IF attempt # NoAttempt /\ is_submitted(attempt)
           THEN Respond(w, "AlreadySubmitted", <<>>)
           ELSE /\ pc' = [pc EXCEPT ![w] = "submit_grade"]
                /\ frame' = [frame EXCEPT ![w].attempt =
                               [attempt EXCEPT !.quiz = request[w].quiz_id]]
                /\ UNCHANGED response
    /\ UNCHANGED <<Quiz_rows, Question_objects, now, Quiz_objects, Attempt_objects, cache, request, issued>>

\* SubmitGetAttempt with an admission and time-limit check: an in-progress
\* attempt is refused when the loaded quiz is inactive, when the clock is
\* past ends_on or when time_limit_minutes have passed since started_at.
SubmitGetAttemptChecksLimits(w) ==
    /\ pc[w] = "submit_attempt"
    /\ LET attempt == AttemptFirst(request[w].user, request[w].quiz_id)
       IN  IF attempt = NoAttempt
           THEN Respond(w, "AttemptNotFound", <<>>)
           ELSE IF is_submitted(attempt)
           THEN Respond(w, "AlreadySubmitted", <<>>)
           ELSE IF \/ ~frame[w].quiz.is_active
                   \/ now > ends_on[attempt.quiz]
                   \/ now - attempt.started_at > time_limit_minutes[attempt.quiz]
           THEN Respond(w, "Ended", <<>>)
           ELSE /\ pc' = [pc EXCEPT ![w] = "submit_grade"]
                /\ frame' = [frame EXCEPT ![w].attempt = attempt]
                /\ UNCHANGED response
    /\ UNCHANGED <<Quiz_rows, Question_objects, now, Quiz_objects, Attempt_objects, cache, request, issued>>

\* views.py 271-277: look the attempt up, refuse a missing or submitted one.
SubmitGetAttempt(w) ==
    /\ pc[w] = "submit_attempt"
    /\ LET attempt == AttemptFirst(request[w].user, request[w].quiz_id)
       IN  IF attempt = NoAttempt
           THEN Respond(w, "AttemptNotFound", <<>>)
           ELSE IF is_submitted(attempt)
           THEN Respond(w, "AlreadySubmitted", <<>>)
           ELSE /\ pc' = [pc EXCEPT ![w] = "submit_grade"]
                /\ frame' = [frame EXCEPT ![w].attempt = attempt]
                /\ UNCHANGED response
    /\ UNCHANGED <<Quiz_rows, Question_objects, now, Quiz_objects, Attempt_objects, cache, request, issued>>

\* int(selected), models.py 200: the integer itself for an integer; a value
\* that is not a number ("abc", null, a list) raises ValueError or TypeError.
IntRaises(selected) == selected = NonNumeric

\* Attempt.grade raises: the loop reaches a key that has a Question row of
\* the quiz (a key without one is skipped before int() is called) and whose
\* value int() rejects.  Nothing in grade or in the view catches it.
GradeRaises(responses, quiz_id) ==
    \E qid \in QuestionIds :
        /\ responses[qid] # NoAnswer
        /\ QuestionGet(qid, quiz_id) # NoQuestion
        /\ IntRaises(responses[qid])

\* views.py 279, models.py 177-205: grade the loaded responses, set score on
\* the instance and save(update_fields=["score"]).  When the loop raises,
\* nothing has been written and the request ends with a server error.
SubmitGrade(w) ==
    /\ pc[w] = "submit_grade"
    /\ IF GradeRaises(frame[w].attempt.responses, frame[w].attempt.quiz)
       THEN /\ Respond(w, "ServerError", <<>>)
            /\ UNCHANGED Attempt_objects
       ELSE LET correct == GradeOf(frame[w].attempt.responses, frame[w].attempt.quiz)
                attempt == [frame[w].attempt EXCEPT !.score = correct]
            IN  /\ Attempt_objects' = AttemptUpdate(Attempt_objects, attempt, {"score"})
                /\ frame' = [frame EXCEPT ![w].attempt = attempt,
                                          ![w].final_score = correct]
                /\ pc' = [pc EXCEPT ![w] = "submit_mark"]
                /\ UNCHANGED response
    /\ UNCHANGED <<Quiz_rows, Question_objects, now, Quiz_objects, cache, request, issued>>

\* views.py 281, models.py 169-175: submitted_at = timezone.now() on the
\* instance and save(update_fields=["submitted_at"]).
SubmitMark(w) ==
    /\ pc[w] = "submit_mark"
    /\ LET attempt == [frame[w].attempt EXCEPT !.submitted_at = now]
       IN  /\ Attempt_objects' = AttemptUpdate(Attempt_objects, attempt, {"submitted_at"})
           /\ frame' = [frame EXCEPT ![w].attempt = attempt]
    /\ pc' = [pc EXCEPT ![w] = "submit_append"]
    /\ UNCHANGED <<Quiz_rows, Question_objects, now, Quiz_objects, cache, request, response, issued>>

\* SubmitAppend with quiz.save() in place of the save(update_fields=
\* ["user_scores"]) of views.py 287: every column of the loaded quiz is
\* written back.
SubmitAppendSavesWholeRow(w) ==
    /\ pc[w] = "submit_append"
    /\ LET quiz == frame[w].quiz
           user_scores == Append(quiz.user_scores,
                                 [user_id |-> request[w].user,
                                  score |-> frame[w].final_score])
           attempt == frame[w].attempt
       IN  /\ Quiz_objects' = [Quiz_objects EXCEPT
                                 ![quiz.quiz_id].user_scores = user_scores,
                                 ![quiz.quiz_id].is_active = quiz.is_active]
           /\ Respond(w, "OK",
                      [attempt_id |-> attempt.attempt_id, score |-> attempt.score,
                       submitted_at |-> attempt.submitted_at,
                       responses |-> attempt.responses])
    /\ UNCHANGED <<Quiz_rows, Question_objects, now, Attempt_objects, cache, request, issued>>

\* views.py 283-291: append to the user_scores list the view loaded, write the
\* whole column back, answer with the serialized attempt.
SubmitAppend(w) ==
    /\ pc[w] = "submit_append"
    /\ LET quiz == frame[w].quiz
           user_scores == Append(quiz.user_scores,
                                 [user_id |-> request[w].user,
                                  score |-> frame[w].final_score])
           attempt == frame[w].attempt
       IN  /\ Quiz_objects' = [Quiz_objects EXCEPT ![quiz.quiz_id].user_scores = user_scores]
           /\ Respond(w, "OK",
                      [attempt_id |-> attempt.attempt_id, score |-> attempt.score,
                       submitted_at |-> attempt.submitted_at,
                       responses |-> attempt.responses])
    /\ UNCHANGED <<Quiz_rows, Question_objects, now, Attempt_objects, cache, request, issued>>

\* A Submit request dies between two of its store writes (the worker is
\* killed, or the next statement raises: the database connection is lost).
\* The view runs in autocommit without transaction.atomic (views.py 279-287),
\* so what it has written stays written and nothing more is.
SubmitAbort(w) ==
    /\ pc[w] \in {"submit_mark", "submit_append"}
    /\ Respond(w, "ServerError", <<>>)
    /\ UNCHANGED <<Quiz_rows, Question_objects, now, Quiz_objects, Attempt_objects, cache, request, issued>>

\* ----------------------------------------------- AttemptUserResponseView
\* AttemptResponseSerializer, serializers.py 214-288: the attempt with, for
\* each response that names a question of its quiz, the selected and the
\* correct option.
AttemptResponseSerializer(attempt) ==
    [attempt_id |-> attempt.attempt_id,
     user_id |-> attempt.user,
     score |-> attempt.score,
     submitted_at |-> attempt.submitted_at,
     responses |->
        {[question_id |-> qid,
          selected_option |-> attempt.responses[qid],
          correct_option |-> QuestionGet(qid, attempt.quiz).answer,
          is_correct |-> attempt.responses[qid] = QuestionGet(qid, attempt.quiz).answer] :
            qid \in {x \in QuestionIds : /\ attempt.responses[x] # NoAnswer
                                         /\ QuestionGet(x, attempt.quiz) # NoQuestion}}]

\* user_id values a client may put in the URL; "" is the URL without one,
\* "nobody" the id of no user.
UserIdInputs == Users \cup {"", "nobody"}

\* ListResponses without the creator check of views.py 346-347: whoever
\* supplies a user_id gets that user's attempt.
ListResponsesNoCreatorCheck(w, user, quiz_id, user_id) ==
    /\ Free(w)
    /\ Accept(w, [NoRequest EXCEPT !.view = "AttemptUserResponseView",
                                   !.user = user, !.quiz_id = quiz_id,
                                   !.user_id = user_id])
    /\ IF user_id = "" /\ creator[quiz_id] = user
       THEN IF AttemptsOfQuiz(quiz_id) = {}
            THEN Respond(w, "NoAttempts", <<>>)
            ELSE Respond(w, "OK",
                         {AttemptResponseSerializer(a) : a \in AttemptsOfQuiz(quiz_id)})
       ELSE IF user_id # "" /\ user_id \notin Users
       THEN Respond(w, "NotFound", <<>>)
       ELSE LET target_user == IF user_id = "" THEN user ELSE user_id
                attempt == AttemptFirst(target_user, quiz_id)
            IN  IF attempt = NoAttempt
                THEN Respond(w, "AttemptNotFound", <<>>)
                ELSE IF ~is_submitted(attempt)
                THEN Respond(w, "NotSubmitted", <<>>)
                ELSE Respond(w, "OK", {AttemptResponseSerializer(attempt)})
    /\ UNCHANGED <<Quiz_rows, Question_objects, now, Quiz_objects, Attempt_objects, cache>>

\* ListResponses without the is_submitted check of views.py 364-366: an open
\* attempt is serialized like a submitted one.
ListResponsesNoSubmittedCheck(w, user, quiz_id, user_id) ==
    /\ Free(w)
    /\ Accept(w, [NoRequest EXCEPT !.view = "AttemptUserResponseView",
                                   !.user = user, !.quiz_id = quiz_id,
                                   !.user_id = user_id])
    /\ IF user_id = "" /\ creator[quiz_id] = user
       THEN IF AttemptsOfQuiz(quiz_id) = {}
            THEN Respond(w, "NoAttempts", <<>>)
            ELSE Respond(w, "OK",
                         {AttemptResponseSerializer(a) : a \in AttemptsOfQuiz(quiz_id)})
       ELSE IF user_id # "" /\ creator[quiz_id] # user
       THEN Respond(w, "Forbidden", <<>>)
       ELSE IF user_id # "" /\ user_id \notin Users
       THEN Respond(w, "NotFound", <<>>)
       ELSE LET target_user == IF user_id = "" THEN user ELSE user_id
                attempt == AttemptFirst(target_user, quiz_id)
            IN  IF attempt = NoAttempt
                THEN Respond(w, "AttemptNotFound", <<>>)
                ELSE Respond(w, "OK", {AttemptResponseSerializer(attempt)})
    /\ UNCHANGED <<Quiz_rows, Question_objects, now, Quiz_objects, Attempt_objects, cache>>

\* ListResponses with the User lookup of views.py 350-353 placed before the
\* creator check of 346-347.
ListResponsesLookupFirst(w, user, quiz_id, user_id) ==
    /\ Free(w)
    /\ Accept(w, [NoRequest EXCEPT !.view = "AttemptUserResponseView",
                                   !.user = user, !.quiz_id = quiz_id,
                                   !.user_id = user_id])
    /\ IF user_id = "" /\ creator[quiz_id] = user
       THEN IF AttemptsOfQuiz(quiz_id) = {}
            THEN Respond(w, "NoAttempts", <<>>)
            ELSE Respond(w, "OK",
                         {AttemptResponseSerializer(a) : a \in AttemptsOfQuiz(quiz_id)})
       ELSE IF user_id # "" /\ user_id \notin Users
       THEN Respond(w, "NotFound", <<>>)
       ELSE IF user_id # "" /\ creator[quiz_id] # user
       THEN Respond(w, "Forbidden", <<>>)
       ELSE LET target_user == IF user_id = "" THEN user ELSE user_id
                attempt == AttemptFirst(target_user, quiz_id)
            IN  IF attempt = NoAttempt
                THEN Respond(w, "AttemptNotFound", <<>>)
                ELSE IF ~is_submitted(attempt)
                THEN Respond(w, "NotSubmitted", <<>>)
                ELSE Respond(w, "OK", {AttemptResponseSerializer(attempt)})
    /\ UNCHANGED <<Quiz_rows, Question_objects, now, Quiz_objects, Attempt_objects, cache>>

\* views.py 310-370.  The quiz row and the User row are read for fields no
\* view writes, so the whole view is one step on the database.
ListResponses(w, user, quiz_id, user_id) ==
    /\ Free(w)
    /\ Accept(w, [NoRequest EXCEPT !.view = "AttemptUserResponseView",
                                   !.user = user, !.quiz_id = quiz_id,
                                   !.user_id = user_id])
    /\ IF user_id = "" /\ creator[quiz_id] = user
       THEN IF AttemptsOfQuiz(quiz_id) = {}
            THEN Respond(w, "NoAttempts", <<>>)
            ELSE Respond(w, "OK",
                         {AttemptResponseSerializer(a) : a \in AttemptsOfQuiz(quiz_id)})
       ELSE IF user_id # "" /\ creator[quiz_id] # user
       THEN Respond(w, "Forbidden", <<>>)
       ELSE IF user_id # "" /\ user_id \notin Users
       THEN Respond(w, "NotFound", <<>>)
       ELSE LET target_user == IF user_id = "" THEN user ELSE user_id
                attempt == AttemptFirst(target_user, quiz_id)
            IN  IF attempt = NoAttempt
                THEN Respond(w, "AttemptNotFound", <<>>)
                ELSE IF ~is_submitted(attempt)
                THEN Respond(w, "NotSubmitted", <<>>)
                ELSE Respond(w, "OK", {AttemptResponseSerializer(attempt)})
    /\ UNCHANGED <<Quiz_rows, Question_objects, now, Quiz_objects, Attempt_objects, cache>>

\* --------------------------------------------------------- QuizCreateView
\* Instants a client may send as initiates_on and ends_on.
WindowInputs == {0, 1}

\* quiz_id and question_id = uuid4(): the n-th created quiz and its question.
NewQuizIds == <<"c1", "c2", "c3", "c4", "c5", "c6">>
NewQuestionIds == <<"d1", "d2", "d3", "d4", "d5", "d6">>

\* views.py 46-51, serializers.py 34-69: serializer.is_valid checks each field
\* by its type (valid says whether the body passes: a title, two datetimes, a
\* positive time limit, a list of questions) and compares no field with
\* another; Quiz.objects.create stores the row with the fields as sent.
QuizCreateQuiz(w, user, initiates, ends, valid) ==
    /\ Free(w)
    /\ Cardinality(Quiz_rows) < Len(NewQuizIds)
    /\ Accept(w, [NoRequest EXCEPT !.view = "QuizCreateView", !.user = user])
    /\ IF ~valid
       THEN Respond(w, "Invalid", <<>>) /\ UNCHANGED Quiz_rows
       ELSE LET quiz == [quiz_id |-> NewQuizIds[Cardinality(Quiz_rows) + 1],
                         creator |-> user,
                         initiates_on |-> initiates, ends_on |-> ends,
                         is_active |-> TRUE]
            IN  /\ Quiz_rows' = Quiz_rows \cup {quiz}
                /\ pc' = [pc EXCEPT ![w] = "create_questions"]
                /\ frame' = [frame EXCEPT ![w] =
                               [NoFrame EXCEPT !.quiz.quiz_id = quiz.quiz_id,
                                               !.quiz.is_active = quiz.is_active]]
                /\ response' = [response EXCEPT ![w] = NoResponse]
    /\ UNCHANGED <<Question_objects, now, Quiz_objects, Attempt_objects, cache>>

\* serializers.py 72-80, views.py 50: the Question rows of the new quiz (one
\* question here), quiz.save() and the 201 response with the stored fields.
QuizCreateQuestions(w) ==
    /\ pc[w] = "create_questions"
    /\ LET quiz == CHOOSE r \in Quiz_rows : r.quiz_id = frame[w].quiz.quiz_id
           n == CHOOSE i \in 1..Len(NewQuizIds) : NewQuizIds[i] = quiz.quiz_id
       IN  /\ Question_objects' = Question_objects \cup
                 {[question_id |-> NewQuestionIds[n], quiz |-> quiz.quiz_id,
                   answer |-> 2]}
           /\ Respond(w, "Created", quiz)
    /\ UNCHANGED <<Quiz_rows, now, Quiz_objects, Attempt_objects, cache, request, issued>>

\* -------------------------------------------------------------- behaviour
\* The requests of one quiz, "qa", by every user.
Next ==
    \/ Tick
    \/ \E w \in Workers, user \in Users : StartGetQuiz(w, user, "qa")
    \/ \E w \in Workers : StartGetAttempt(w)
    \/ \E w \in Workers : StartCreate(w)
    \/ \E w \in Workers : StartCache(w)
    \/ \E w \in Workers, user \in Users, question_id \in {"a1", "a2"},
          selected_option \in SelectedOptionInputs :
            SaveGetAttempt(w, user, "qa", question_id, selected_option)
    \/ \E w \in Workers : SaveWrite(w)
    \/ \E w \in Workers, user \in Users : StatusGetQuiz(w, user, "qa")
    \/ \E w \in Workers : StatusGetAttempt(w)
    \/ \E w \in Workers : StatusSave(w)
    \/ \E w \in Workers, user \in Users : SubmitGetQuiz(w, user, "qa")
    \/ \E w \in Workers : SubmitGetAttempt(w)
    \/ \E w \in Workers : SubmitGrade(w)
    \/ \E w \in Workers : SubmitMark(w)
    \/ \E w \in Workers : SubmitAppend(w)

Spec == Init /\ [][Next]_vars

\* The response views, with the requests that create, fill and submit the
\* attempts they read (the clock and the status view do not touch what the
\* response views read).
NextResponses ==
    \/ \E w \in Workers, user \in Users : StartGetQuiz(w, user, "qa")
    \/ \E w \in Workers : StartGetAttempt(w)
    \/ \E w \in Workers : StartCreate(w)
    \/ \E w \in Workers : StartCache(w)
    \/ \E w \in Workers, user \in Users, selected_option \in AnswerInputs :
            SaveGetAttempt(w, user, "qa", "a1", selected_option)
    \/ \E w \in Workers : SaveWrite(w)
    \/ \E w \in Workers, user \in Users : SubmitGetQuiz(w, user, "qa")
    \/ \E w \in Workers : SubmitGetAttempt(w)
    \/ \E w \in Workers : SubmitGrade(w)
    \/ \E w \in Workers : SubmitMark(w)
    \/ \E w \in Workers : SubmitAppend(w)
    \/ \E w \in Workers, user \in Users, user_id \in UserIdInputs :
            ListResponses(w, user, "qa", user_id)

SpecResponses == Init /\ [][NextResponses]_vars

\* ----------------------------------------------------------------- grading
\* Grading over every question table and every response map of a bounded
\* family: each of a1, a2, b1 belongs to either quiz and has 2 or 4 as its
\* answer ("zz" has no row); u1 holds an open Attempt on "qa" whose response
\* map gives each id no answer, 2 or 4; the Submit view grades it.
QuestionTables ==
    {{[question_id |-> qid, quiz |-> f[qid].quiz, answer |-> f[qid].answer] :
        qid \in {"a1", "a2", "b1"}} :
        f \in [{"a1", "a2", "b1"} -> [quiz : Quizzes, answer : AnswerInputs]]}
ResponseMaps == [QuestionIds -> {NoAnswer} \cup AnswerInputs]

InitGrade ==
    /\ now = 0
    /\ Quiz_rows = {}
    /\ Question_objects \in QuestionTables
    /\ Quiz_objects = [q \in Quizzes |-> [is_active |-> TRUE, user_scores |-> <<>>]]
    /\ \E responses \in ResponseMaps :
          Attempt_objects =
              [p \in Pairs |->
                  IF p = <<"u1", "qa">>
                  THEN <<[attempt_id |-> 1, user |-> "u1", quiz |-> "qa",
                          responses |-> responses, started_at |-> 0,
                          submitted_at |-> NULL, score |-> NULL]>>
                  ELSE <<>>]
    /\ cache = [q \in Quizzes |-> NoCache]
    /\ pc = [w \in Workers |-> "idle"]
    /\ request = [w \in Workers |-> NoRequest]
    /\ frame = [w \in Workers |-> NoFrame]
    /\ response = [w \in Workers |-> NoResponse]
    /\ issued = 0

NextGrade ==
    \/ \E w \in Workers : SubmitGetQuiz(w, "u1", "qa")
    \/ \E w \in Workers : SubmitGetAttempt(w)
    \/ \E w \in Workers : SubmitGrade(w)
    \/ \E w \in Workers : SubmitMark(w)
    \/ \E w \in Workers : SubmitAppend(w)

SpecGrade == InitGrade /\ [][NextGrade]_vars

\* ------------------------------------------------------- saving and grading
\* One participant saves answers under any question id, of the quiz or not,
\* and submits.
NextSave ==
    \/ \E w \in Workers, question_id \in QuestionIds,
          selected_option \in SelectedOptionInputs :
            SaveGetAttempt(w, "u1", "qa", question_id, selected_option)
    \/ \E w \in Workers : SaveWrite(w)
    \/ \E w \in Workers : SubmitGetQuiz(w, "u1", "qa")
    \/ \E w \in Workers : SubmitGetAttempt(w)
    \/ \E w \in Workers : SubmitGrade(w)
    \/ \E w \in Workers : SubmitMark(w)
    \/ \E w \in Workers : SubmitAppend(w)

SpecSave == Init /\ [][NextSave]_vars

\* ------------------------------------------------------ the window and flag
\* Every view of the core on one quiz, by one participant (by either user
\* for the response views), as the clock passes ends_on.
NextWindow ==
    \/ Tick
    \/ \E w \in Workers : StartGetQuiz(w, "u2", "qa")
    \/ \E w \in Workers : StartGetAttempt(w)
    \/ \E w \in Workers : StartCreate(w)
    \/ \E w \in Workers : StartCache(w)
    \/ \E w \in Workers : SaveGetAttempt(w, "u2", "qa", "a1", 2)
    \/ \E w \in Workers : SaveWrite(w)
    \/ \E w \in Workers : StatusGetQuiz(w, "u2", "qa")
    \/ \E w \in Workers : StatusGetAttempt(w)
    \/ \E w \in Workers : StatusSave(w)
    \/ \E w \in Workers : SubmitGetQuiz(w, "u2", "qa")
    \/ \E w \in Workers : SubmitGetAttempt(w)
    \/ \E w \in Workers : SubmitGrade(w)
    \/ \E w \in Workers : SubmitMark(w)
    \/ \E w \in Workers : SubmitAppend(w)
    \/ \E w \in Workers, user \in Users : ListResponses(w, user, "qa", "")

SpecWindow == Init /\ [][NextWindow]_vars

\* ------------------------------------------------------- failing requests
\* Submits of one participant, any of which may die between its writes.
NextAbort ==
    \/ \E w \in Workers : SubmitGetQuiz(w, "u2", "qa")
    \/ \E w \in Workers : SubmitGetAttempt(w)
    \/ \E w \in Workers : SubmitGrade(w)
    \/ \E w \in Workers : SubmitMark(w)
    \/ \E w \in Workers : SubmitAppend(w)
    \/ \E w \in Workers : SubmitAbort(w)

SpecAbort == Init /\ [][NextAbort]_vars

\* -------------------------------------------------------- the question cache
\* Starts by every user on both quizzes while cached question lists expire.
NextCache ==
    \/ \E w \in Workers, user \in Users, quiz_id \in Quizzes :
          StartGetQuiz(w, user, quiz_id)
    \/ \E w \in Workers : StartGetAttempt(w)
    \/ \E w \in Workers : StartCreate(w)
    \/ \E w \in Workers : StartCache(w)
    \/ \E q \in Quizzes : CacheExpire(q)

SpecCache == Init /\ [][NextCache]_vars

\* ------------------------------------------------------------- admission
\* Quizzes as QuizCreateSerializer stores them: is_active is a writable field,
\* so a quiz may be inactive from its creation; initiates_on and ends_on are
\* the fixed windows above ("qb" opens at 1).
InitAdmit ==
    /\ now = 0
    /\ Quiz_rows = {}
    /\ Question_objects = Question
    /\ Quiz_objects \in [Quizzes -> {[is_active |-> b, user_scores |-> <<>>] : b \in BOOLEAN}]
    /\ Attempt_objects = [p \in Pairs |-> <<>>]
    /\ cache = [q \in Quizzes |-> NoCache]
    /\ pc = [w \in Workers |-> "idle"]
    /\ request = [w \in Workers |-> NoRequest]
    /\ frame = [w \in Workers |-> NoFrame]
    /\ response = [w \in Workers |-> NoResponse]
    /\ issued = 0

\* Starts and Statuses by every user on both quizzes as the clock runs.
NextAdmit ==
    \/ Tick
    \/ \E w \in Workers, user \in Users, quiz_id \in Quizzes :
          StartGetQuiz(w, user, quiz_id)
    \/ \E w \in Workers : StartGetAttempt(w)
    \/ \E w \in Workers : StartCreate(w)
    \/ \E w \in Workers : StartCache(w)
    \/ \E w \in Workers, user \in Users, quiz_id \in Quizzes :
          StatusGetQuiz(w, user, quiz_id)
    \/ \E w \in Workers : StatusGetAttempt(w)
    \/ \E w \in Workers : StatusSave(w)

SpecAdmit == InitAdmit /\ [][NextAdmit]_vars

\* ------------------------------------------------- grading of stored values
\* Attempt.grade as a function of any stored map: u1 holds an open Attempt on
\* "qa" whose response map gives each id no answer, the answer 2, the
\* out-of-range 5 or a value that is not a number; the Submit view grades it.
StoredValues == {NoAnswer, 2, 5, NonNumeric}

InitCoerce ==
    /\ now = 0
    /\ Quiz_rows = {}
    /\ Question_objects = Question
    /\ Quiz_objects = [q \in Quizzes |-> [is_active |-> TRUE, user_scores |-> <<>>]]
    /\ \E responses \in [QuestionIds -> StoredValues] :
          Attempt_objects =
              [p \in Pairs |->
                  IF p = <<"u1", "qa">>
                  THEN <<[attempt_id |-> 1, user |-> "u1", quiz |-> "qa",
                          responses |-> responses, started_at |-> 0,
                          submitted_at |-> NULL, score |-> NULL]>>
                  ELSE <<>>]
    /\ cache = [q \in Quizzes |-> NoCache]
    /\ pc = [w \in Workers |-> "idle"]
    /\ request = [w \in Workers |-> NoRequest]
    /\ frame = [w \in Workers |-> NoFrame]
    /\ response = [w \in Workers |-> NoResponse]
    /\ issued = 0

SpecCoerce == InitCoerce /\ [][NextGrade]_vars

\* ------------------------------------------------ participants and quizzes
\* Start, Save, Status and Submit for three (participant, quiz) pairs: two
\* participants of one quiz, and one participant on two quizzes.
RequestPairs == {<<"u1", "qa">>, <<"u2", "qa">>, <<"u1", "qb">>}

NextPairs ==
    \/ Tick
    \/ \E w \in Workers, p \in RequestPairs : StartGetQuiz(w, p[1], p[2])
    \/ \E w \in Workers : StartGetAttempt(w)
    \/ \E w \in Workers : StartCreate(w)
    \/ \E w \in Workers : StartCache(w)
    \/ \E w \in Workers, p \in RequestPairs : SaveGetAttempt(w, p[1], p[2], "a1", 2)
    \/ \E w \in Workers : SaveWrite(w)
    \/ \E w \in Workers, p \in RequestPairs : StatusGetQuiz(w, p[1], p[2])
    \/ \E w \in Workers : StatusGetAttempt(w)
    \/ \E w \in Workers : StatusSave(w)
    \/ \E w \in Workers, p \in RequestPairs : SubmitGetQuiz(w, p[1], p[2])
    \/ \E w \in Workers : SubmitGetAttempt(w)
    \/ \E w \in Workers : SubmitGrade(w)
    \/ \E w \in Workers : SubmitMark(w)
    \/ \E w \in Workers : SubmitAppend(w)

SpecPairs == Init /\ [][NextPairs]_vars

\* ------------------------------------------------------------ quiz creation
\* Creators post quizzes with any window.
NextCreate ==
    \/ \E w \in Workers, user \in Users, initiates \in WindowInputs,
          ends \in WindowInputs, valid \in BOOLEAN :
            QuizCreateQuiz(w, user, initiates, ends, valid)
    \/ \E w \in Workers : QuizCreateQuestions(w)

SpecCreate == Init /\ [][NextCreate]_vars

\* ------------------------------------------------- saves around a submit
\* u1 holds an open Attempt on "qa" in which each question of the quiz has no
\* answer, 2 or 4 (maps that saves produce); u1 saves further answers and
\* submits.
InitBound ==
    /\ now = 0
    /\ Quiz_rows = {}
    /\ Question_objects = Question
    /\ Quiz_objects = [q \in Quizzes |-> [is_active |-> TRUE, user_scores |-> <<>>]]
    /\ \E x, y \in {NoAnswer} \cup AnswerInputs :
          Attempt_objects =
              [p \in Pairs |->
                  IF p = <<"u1", "qa">>
                  THEN <<[attempt_id |-> 1, user |-> "u1", quiz |-> "qa",
                          responses |-> [EmptyResponses EXCEPT !["a1"] = x, !["a2"] = y],
                          started_at |-> 0,
                          submitted_at |-> NULL, score |-> NULL]>>
                  ELSE <<>>]
    /\ cache = [q \in Quizzes |-> NoCache]
    /\ pc = [w \in Workers |-> "idle"]
    /\ request = [w \in Workers |-> NoRequest]
    /\ frame = [w \in Workers |-> NoFrame]
    /\ response = [w \in Workers |-> NoResponse]
    /\ issued = 0

NextBound ==
    \/ \E w \in Workers, question_id \in {"a1", "a2"},
          selected_option \in AnswerInputs :
            SaveGetAttempt(w, "u1", "qa", question_id, selected_option)
    \/ \E w \in Workers : SaveWrite(w)
    \/ \E w \in Workers : SubmitGetQuiz(w, "u1", "qa")
    \/ \E w \in Workers : SubmitGetAttempt(w)
    \/ \E w \in Workers : SubmitGrade(w)
    \/ \E w \in Workers : SubmitMark(w)
    \/ \E w \in Workers : SubmitAppend(w)

SpecBound == InitBound /\ [][NextBound]_vars

\* ------------------------------------------------------------ vocabulary
\* Worker w has finished a request of the view and its response is on record.
DoneView(w, view) == pc[w] = "done" /\ request[w].view = view

\* This step accepts a request of the view (on the Acceptor).
Accepts(view) == issued' = issued + 1 /\ request'[Acceptor].view = view

\* The ledger of quiz q holds an entry of user u.
InLedger(q, u) ==
    \E i \in 1..Len(Quiz_objects[q].user_scores) :
        Quiz_objects[q].user_scores[i].user_id = u

\* ------------------------------------------------------------------ claims

\* C1: of two Submit requests by the same participant for the same quiz (in
\* any interleaving) exactly one succeeds: two such requests never both
\* answer OK.
C1_SubmitSucceedsOnce ==
    \A w, v \in Workers :
        (/\ w # v
         /\ DoneView(w, "AttemptSubmitView") /\ DoneView(v, "AttemptSubmitView")
         /\ request[w].user = request[v].user
         /\ request[w].quiz_id = request[v].quiz_id)
        => ~(response[w].status = "OK" /\ response[v].status = "OK")

\* C2: when two different participants have both submitted the same quiz
\* successfully, the ledger holds an entry of each of them.
C2_NoLostAppend ==
    \A w, v \in Workers :
        (/\ DoneView(w, "AttemptSubmitView") /\ DoneView(v, "AttemptSubmitView")
         /\ request[w].user # request[v].user
         /\ request[w].quiz_id = request[v].quiz_id
         /\ response[w].status = "OK" /\ response[v].status = "OK")
        => /\ InLedger(request[w].quiz_id, request[w].user)
           /\ InLedger(request[w].quiz_id, request[v].user)

\* C3: at most one Attempt row exists for each (participant, quiz).
C3_OneAttemptPerPair == \A p \in Pairs : Len(Attempt_objects[p]) <= 1

\* C4: a successful StartOrResume that arrives after a successful
\* StartOrResume of the same participant and quiz has answered returns the
\* attempt id that one returned.
C4_StartIdempotent ==
    \A w \in Workers :
        (DoneView(w, "AttemptStartView") /\ response[w].status = "OK")
        => \A id \in request[w].prior : response[w].data.attempt_id = id

\* C5: score and submitted_at of every Attempt row are both null or both set.
C5_ScoreWithSubmittedAt ==
    \A a \in AllAttempts : (a.score = NULL) <=> (a.submitted_at = NULL)

\* C6: once submitted_at of an Attempt is set, no step changes its score or
\* its submitted_at.
C6_SubmittedIsTerminal ==
    [][\A a \in AllAttempts :
          is_submitted(a) =>
            \E b \in AllAttempts' : /\ b.attempt_id = a.attempt_id
                                    /\ b.score = a.score
                                    /\ b.submitted_at = a.submitted_at]_vars

\* C7: once submitted_at of an Attempt is set, no step changes its response
\* map.
C7_ResponsesFrozenOnceSubmitted ==
    [][\A a \in AllAttempts :
          is_submitted(a) =>
            \E b \in AllAttempts' : /\ b.attempt_id = a.attempt_id
                                    /\ b.responses = a.responses]_vars

C10_RefusedStartCreatesNothing ==
    [][(/\ Accepts("AttemptStartView")
        /\ \/ ~Quiz_objects[request'[Acceptor].quiz_id].is_active
           \/ now > ends_on[request'[Acceptor].quiz_id])
       => /\ pc'[Acceptor] = "done"
          /\ response'[Acceptor].status \in {"Inactive", "Ended"}
          /\ Attempt_objects' = Attempt_objects]_vars

\* One StartOrResume was refused with Ended and another with Inactive, and
\* neither participant has an Attempt.
C10_Witness ==
    \E w, v \in Workers :
        /\ DoneView(w, "AttemptStartView") /\ response[w].status = "Ended"
        /\ DoneView(v, "AttemptStartView") /\ response[v].status = "Inactive"
        /\ Attempt_objects[<<request[w].user, request[w].quiz_id>>] = <<>>
        /\ Attempt_objects[<<request[v].user, request[v].quiz_id>>] = <<>>

\* C11: when an admitted StartOrResume looks the participant's Attempt up and
\* finds it Submitted, it answers AlreadySubmitted at that step and the
\* Attempt table is the same before and after: no second Attempt is created
\* and the submitted one keeps every field.
C11_StartRefusesSubmitted ==
    [][\A w \in Workers :
          (/\ pc[w] = "start_attempt" /\ pc'[w] # pc[w]
           /\ AttemptFirst(request[w].user, request[w].quiz_id) # NoAttempt
           /\ is_submitted(AttemptFirst(request[w].user, request[w].quiz_id)))
          => /\ pc'[w] = "done"
             /\ response'[w].status = "AlreadySubmitted"
             /\ Attempt_objects' = Attempt_objects]_vars

\* A StartOrResume was refused with AlreadySubmitted; the participant has one
\* Attempt, and it is Submitted.
C11_Witness ==
    \E w \in Workers :
        /\ DoneView(w, "AttemptStartView")
        /\ response[w].status = "AlreadySubmitted"
        /\ Len(Attempt_objects[<<request[w].user, request[w].quiz_id>>]) = 1
        /\ is_submitted(AttemptFirst(request[w].user, request[w].quiz_id))
        /\ AttemptFirst(request[w].user, request[w].quiz_id).score # NULL

\* C12: a SaveAnswer (with an option in 1..4) for a participant and quiz with
\* no Attempt row is answered at once with AttemptNotFound, and the Attempt
\* table, the Quiz table, the Question table and the cache are the same
\* before and after it.
C12_SaveWithoutAttempt ==
    [][(/\ Accepts("AttemptSaveView")
        /\ ValidOption(request'[Acceptor].selected_option)
        /\ Attempt_objects[<<request'[Acceptor].user, request'[Acceptor].quiz_id>>] = <<>>)
       => /\ pc'[Acceptor] = "done"
          /\ response'[Acceptor].status = "AttemptNotFound"
          /\ Attempt_objects' = Attempt_objects
          /\ Quiz_objects' = Quiz_objects
          /\ Question_objects' = Question_objects
          /\ cache' = cache]_vars

\* A SaveAnswer was refused with AttemptNotFound and the participant still
\* has no Attempt for the quiz.
C12_Witness ==
    \E w \in Workers :
        /\ DoneView(w, "AttemptSaveView")
        /\ response[w].status = "AttemptNotFound"
        /\ ValidOption(request[w].selected_option)
        /\ Attempt_objects[<<request[w].user, request[w].quiz_id>>] = <<>>

\* C13: a SaveAnswer (with an option in 1..4) that arrives when the
\* participant's Attempt is Submitted is answered at once with
\* AlreadySubmitted, and the Attempt table is the same before and after it:
\* response map, score and submitted_at of the Attempt are unchanged.
C13_SaveAfterSubmit ==
    [][(/\ Accepts("AttemptSaveView")
        /\ ValidOption(request'[Acceptor].selected_option)
        /\ AttemptFirst(request'[Acceptor].user, request'[Acceptor].quiz_id) # NoAttempt
        /\ is_submitted(AttemptFirst(request'[Acceptor].user, request'[Acceptor].quiz_id)))
       => /\ pc'[Acceptor] = "done"
          /\ response'[Acceptor].status = "AlreadySubmitted"
          /\ Attempt_objects' = Attempt_objects]_vars

\* A SaveAnswer was refused with AlreadySubmitted after the participant's
\* Submit had completed (the second worker was never used, so the requests
\* ran one after the other): the ledger holds the Submit's entry and the
\* Attempt holds the score of that entry and an empty response map.
C13_Witness ==
    \E w \in Workers :
        /\ DoneView(w, "AttemptSaveView") /\ response[w].status = "AlreadySubmitted"
        /\ \A v \in Workers \ {w} : pc[v] = "idle"
        /\ LET attempt == AttemptFirst(request[w].user, request[w].quiz_id)
               user_scores == Quiz_objects[request[w].quiz_id].user_scores
           IN  /\ is_submitted(attempt)
               /\ attempt.responses = EmptyResponses
               /\ user_scores = <<[user_id |-> request[w].user, score |-> attempt.score]>>

\* The stored row of the attempt with this id, in this Attempt table.
RowOf(rows, attempt_id) ==
    CHOOSE a \in UNION {{rows[p][i] : i \in 1..Len(rows[p])} : p \in Pairs} :
        a.attempt_id = attempt_id

\* C14: the write of a successful SaveAnswer(question_id, selected_option) is
\* an upsert on the stored Attempt: the stored response map afterwards is the
\* stored response map before with question_id mapped to selected_option,
\* every other field of the Attempt is unchanged, and so is the Quiz table.
C14_SaveIsUpsert ==
    [][\A w \in Workers :
          (pc[w] = "save_write" /\ pc'[w] = "done")
          => LET before == RowOf(Attempt_objects, frame[w].attempt.attempt_id)
                 after == RowOf(Attempt_objects', frame[w].attempt.attempt_id)
             IN  /\ response'[w].status = "OK"
                 /\ after = [before EXCEPT !.responses =
                               [before.responses EXCEPT
                                  ![request[w].question_id] = request[w].selected_option]]
                 /\ Quiz_objects' = Quiz_objects]_vars

\* The entries of a response map that name a question of the quiz and hold
\* that question's correct option.
Matches(responses, quiz_id) ==
    {qid \in QuestionIds :
        /\ responses[qid] # NoAnswer
        /\ \E q \in Question_objects : /\ q.question_id = qid
                                       /\ q.quiz = quiz_id
                                       /\ q.answer = responses[qid]}

\* C15: for every question table and every response map, the grade is the
\* number of entries that name a question of the attempt's own quiz and hold
\* its correct option, and that number is the score a Submit stores; it is
\* never negative, whatever is unanswered or wrong.
C15_ScoreCountsMatches ==
    \A a \in AllAttempts :
        /\ GradeOf(a.responses, a.quiz) = Cardinality(Matches(a.responses, a.quiz))
        /\ a.score # NULL =>
              /\ a.score = Cardinality(Matches(a.responses, a.quiz))
              /\ a.score >= 0

\* A graded Attempt with score 1 whose response map also holds a wrong answer
\* to a question of its quiz and the correct option of a question of the
\* other quiz.
C15_Witness ==
    \E a \in AllAttempts :
        /\ a.score = 1
        /\ \E q \in Question_objects :
              q.quiz = a.quiz /\ a.responses[q.question_id] \notin {NoAnswer, q.answer}
        /\ \E q \in Question_objects :
              q.quiz # a.quiz /\ a.responses[q.question_id] = q.answer

\* The question id names no question of the quiz: no question at all, or a
\* question of another quiz.
Foreign(question_id, quiz_id) ==
    ~\E q \in Question_objects : q.question_id = question_id /\ q.quiz = quiz_id

\* The response map without its entries under foreign question ids.
WithoutForeign(responses, quiz_id) ==
    [qid \in QuestionIds |->
        IF Foreign(qid, quiz_id) THEN NoAnswer ELSE responses[qid]]

\* C16: a SaveAnswer (option in 1..4) under a question id that is not of the
\* quiz is accepted on an open Attempt like any other, its write answers OK
\* and stores the entry; and the score a Submit computes is the grade of the
\* response map it loaded with every such entry removed.
C16_ForeignEntryNeverScores ==
    [][/\ (/\ Accepts("AttemptSaveView")
           /\ Foreign(request'[Acceptor].question_id, request'[Acceptor].quiz_id)
           /\ ValidOption(request'[Acceptor].selected_option)
           /\ AttemptFirst(request'[Acceptor].user, request'[Acceptor].quiz_id) # NoAttempt
           /\ ~is_submitted(AttemptFirst(request'[Acceptor].user, request'[Acceptor].quiz_id)))
          => pc'[Acceptor] = "save_write"
       /\ \A w \in Workers :
            (/\ pc[w] = "save_write" /\ pc'[w] = "done"
             /\ Foreign(request[w].question_id, request[w].quiz_id))
            => /\ response'[w].status = "OK"
               /\ RowOf(Attempt_objects', frame[w].attempt.attempt_id)
                    .responses[request[w].question_id] = request[w].selected_option
       /\ \A w \in Workers :
            (pc[w] = "submit_grade" /\ pc'[w] = "submit_mark")
            => /\ frame'[w].final_score =
                    GradeOf(WithoutForeign(frame[w].attempt.responses,
                                           frame[w].attempt.quiz),
                            frame[w].attempt.quiz)
               /\ RowOf(Attempt_objects', frame[w].attempt.attempt_id).score =
                    frame'[w].final_score]_vars

\* A Submit has answered with score 0 for a response map that holds, under
\* the id of a question of the other quiz, that question's correct option,
\* and an entry under the id of no question.
C16_Witness ==
    \E w \in Workers :
        /\ DoneView(w, "AttemptSubmitView") /\ response[w].status = "OK"
        /\ response[w].data.score = 0
        /\ response[w].data.responses["zz"] # NoAnswer
        /\ \E q \in Question_objects :
              /\ q.quiz # request[w].quiz_id
              /\ response[w].data.responses[q.question_id] = q.answer

\* The orders in which the keys of a response map can be iterated.
Orders(responses) ==
    LET keys == {qid \in QuestionIds : responses[qid] # NoAnswer}
    IN  {s \in [1..Cardinality(keys) -> keys] :
            \A i, j \in 1..Cardinality(keys) : s[i] = s[j] => i = j}

\* C17: grading is deterministic and looks only at the value a question holds
\* last.  Whatever the order in which the response map is iterated the grade
\* is the same, and two requests that grade the same response map get the
\* same score; the correct option of a question overwritten with another
\* option grades like the map without that question; and the score a Submit
\* returns counts no question for which the response map it returns holds
\* another option than the correct one.
C17_GradeOfLastValues ==
    /\ \A a \in AllAttempts :
          /\ \A s \in Orders(a.responses) :
                GradeItems(s, a.responses, a.quiz) = GradeOf(a.responses, a.quiz)
          /\ \A q \in QuizQuestions(a.quiz) : \A x \in (1..4) \ {q.answer} :
                GradeOf(Upsert(Upsert(a.responses, q.question_id, q.answer),
                               q.question_id, x), a.quiz)
                  = GradeOf([a.responses EXCEPT ![q.question_id] = NoAnswer], a.quiz)
    /\ \A w, v \in Workers :
          (/\ frame[w].final_score # NULL /\ frame[v].final_score # NULL
           /\ frame[w].attempt.responses = frame[v].attempt.responses
           /\ frame[w].attempt.quiz = frame[v].attempt.quiz)
          => frame[w].final_score = frame[v].final_score
    /\ \A w \in Workers :
          (DoneView(w, "AttemptSubmitView") /\ response[w].status = "OK")
          => \A q \in QuizQuestions(request[w].quiz_id) :
                response[w].data.responses[q.question_id] # q.answer
                => response[w].data.score =
                     GradeOf([response[w].data.responses EXCEPT
                                ![q.question_id] = NoAnswer], request[w].quiz_id)

\* A SaveAnswer of the correct option of a question has succeeded, the stored
\* response map now holds another option for that question, and a Submit has
\* answered with that map and a score of 0.
C17_Witness ==
    \E w, v \in Workers, q \in Question_objects :
        /\ DoneView(v, "AttemptSaveView") /\ response[v].status = "OK"
        /\ request[v].question_id = q.question_id
        /\ request[v].quiz_id = q.quiz
        /\ request[v].selected_option = q.answer
        /\ DoneView(w, "AttemptSubmitView") /\ response[w].status = "OK"
        /\ request[w].user = request[v].user /\ request[w].quiz_id = request[v].quiz_id
        /\ response[w].data.responses[q.question_id] \notin {NoAnswer, q.answer}
        /\ AttemptFirst(request[w].user, request[w].quiz_id).responses
             = response[w].data.responses
        /\ response[w].data.score = 0

\* C18: a Submit that succeeds stores as score the grade of the response map
\* the Attempt holds when it is marked submitted, and its append makes the
\* stored ledger the ledger before with the one entry {participant, score}
\* added at the end.
C18_SubmitScoresStoredMap ==
    [][\A w \in Workers :
          /\ (pc[w] = "submit_mark" /\ pc'[w] = "submit_append")
             => LET attempt == RowOf(Attempt_objects', frame[w].attempt.attempt_id)
                IN  /\ is_submitted(attempt)
                    /\ attempt.score = GradeOf(attempt.responses, attempt.quiz)
          /\ (pc[w] = "submit_append" /\ pc'[w] = "done")
             => /\ response'[w].status = "OK"
                /\ Quiz_objects'[request[w].quiz_id].user_scores =
                     Append(Quiz_objects[request[w].quiz_id].user_scores,
                            [user_id |-> request[w].user,
                             score |-> response'[w].data.score])]_vars

\* C19: no step of a Submit up to and including its lookup writes the Attempt
\* table or the Quiz table, and a Submit whose lookup finds no Attempt of the
\* participant for the quiz answers AttemptNotFound at that step: it creates
\* no Attempt and appends nothing to the ledger.
C19_SubmitWithoutAttempt ==
    [][/\ Accepts("AttemptSubmitView")
          => Attempt_objects' = Attempt_objects /\ Quiz_objects' = Quiz_objects
       /\ \A w \in Workers :
            (/\ pc[w] = "submit_attempt" /\ pc'[w] # pc[w]
             /\ Attempt_objects[<<request[w].user, request[w].quiz_id>>] = <<>>)
            => /\ pc'[w] = "done"
               /\ response'[w].status = "AttemptNotFound"
               /\ Attempt_objects' = Attempt_objects
               /\ Quiz_objects' = Quiz_objects]_vars

\* A Submit was refused with AttemptNotFound; the participant has no Attempt
\* for the quiz and no entry in its ledger.
C19_Witness ==
    \E w \in Workers :
        /\ DoneView(w, "AttemptSubmitView")
        /\ response[w].status = "AttemptNotFound"
        /\ Attempt_objects[<<request[w].user, request[w].quiz_id>>] = <<>>
        /\ ~InLedger(request[w].quiz_id, request[w].user)

\* C20: a listResponses that names a participant is answered with Forbidden
\* when the caller is not the quiz's creator; when the caller is the creator
\* and the named participant's Attempt is Submitted it is answered with the
\* breakdown of that Attempt and no other; and whatever a caller who is not
\* the creator receives from listResponses, every breakdown in it is of an
\* Attempt of the caller.
C20_ForbiddenForNonCreator ==
    [][Accepts("AttemptUserResponseView") =>
          LET req == request'[Acceptor]
              res == response'[Acceptor]
              attempt == AttemptFirst(req.user_id, req.quiz_id)
          IN  /\ pc'[Acceptor] = "done"
              /\ (req.user_id # "" /\ creator[req.quiz_id] # req.user)
                 => res.status = "Forbidden"
              /\ (/\ req.user_id \in Users /\ creator[req.quiz_id] = req.user
                  /\ attempt # NoAttempt /\ is_submitted(attempt))
                 => /\ res.status = "OK"
                    /\ res.data = {AttemptResponseSerializer(attempt)}
                    /\ \A b \in res.data : b.user_id = req.user_id
              /\ (creator[req.quiz_id] # req.user /\ res.status = "OK")
                 => \A b \in res.data : b.user_id = req.user]_vars

\* The creator asked for the breakdown of another participant and received
\* it, and that other participant, asking for the creator's breakdown, was
\* answered with Forbidden.
C20_Witness ==
    \E w, v \in Workers :
        /\ DoneView(w, "AttemptUserResponseView")
        /\ creator[request[w].quiz_id] = request[w].user
        /\ request[w].user_id \in Users \ {request[w].user}
        /\ response[w].status = "OK"
        /\ \E b \in response[w].data : b.user_id = request[w].user_id
        /\ DoneView(v, "AttemptUserResponseView")
        /\ creator[request[v].quiz_id] # request[v].user
        /\ request[v].user_id \in Users \ {request[v].user}
        /\ response[v].status = "Forbidden"

\* C21: a listResponses without a participant id by a caller who is not the
\* quiz's creator is answered from the caller's own Attempt: with "Attempt
\* not found" (404, the not-found answer of this view) when the caller has no
\* Attempt for the quiz, with NotSubmitted when that Attempt is open, and
\* otherwise with the breakdown of that Attempt and no other.
C21_SelfView ==
    [][Accepts("AttemptUserResponseView") =>
          LET req == request'[Acceptor]
              res == response'[Acceptor]
              attempt == AttemptFirst(req.user, req.quiz_id)
          IN  (req.user_id = "" /\ creator[req.quiz_id] # req.user)
              => /\ pc'[Acceptor] = "done"
                 /\ attempt = NoAttempt => res.status = "AttemptNotFound"
                 /\ (attempt # NoAttempt /\ ~is_submitted(attempt))
                    => res.status = "NotSubmitted"
                 /\ (attempt # NoAttempt /\ is_submitted(attempt))
                    => /\ res.status = "OK"
                       /\ res.data = {AttemptResponseSerializer(attempt)}
                       /\ \A b \in res.data : b.user_id = req.user]_vars

\* A caller who is not the creator has asked without a participant id and
\* received the breakdown of their own submitted Attempt; the same request by
\* the same caller was answered NotSubmitted while the Attempt was open.
C21_Witness ==
    \E w, v \in Workers :
        /\ DoneView(w, "AttemptUserResponseView")
        /\ request[w].user_id = ""
        /\ creator[request[w].quiz_id] # request[w].user
        /\ response[w].status = "OK"
        /\ \E b \in response[w].data :
              b.user_id = request[w].user /\ b.score # NULL
        /\ DoneView(v, "AttemptUserResponseView")
        /\ request[v] = request[w]
        /\ response[v].status = "NotSubmitted"

\* Sequence s is a prefix of sequence t.
IsPrefix(s, t) == Len(s) <= Len(t) /\ SubSeq(t, 1, Len(s)) = s

\* C22: across every step the stored ledger of every quiz before the step is
\* a prefix of the stored ledger after the step.
C22_LedgerAppendOnly ==
    [][\A q \in Quizzes :
          IsPrefix(Quiz_objects[q].user_scores, Quiz_objects'[q].user_scores)]_vars

\* C23: no step sets a persisted is_active that is false back to true.
C23_IsActiveMonotonic ==
    [][\A q \in Quizzes :
          ~Quiz_objects[q].is_active => ~Quiz_objects'[q].is_active]_vars

\* A Submit that was under way when the quiz was still active (its Attempt
\* was marked submitted no later than ends_on) has answered, a Status has
\* reported the quiz ended, and the persisted is_active is false.
C23_Witness ==
    \E w, v \in Workers :
        /\ DoneView(w, "AttemptSubmitView") /\ response[w].status = "OK"
        /\ response[w].data.submitted_at <= ends_on[request[w].quiz_id]
        /\ DoneView(v, "AttemptStatusView") /\ response[v].data.quiz_ended
        /\ request[v].quiz_id = request[w].quiz_id
        /\ ~Quiz_objects[request[w].quiz_id].is_active
        /\ InLedger(request[w].quiz_id, request[w].user)

\* C24: whenever no Submit of a participant and quiz is under way, each
\* Attempt of theirs is either Submitted with its score set and an entry in
\* the ledger, or open with score and submitted_at null and no entry in the
\* ledger, also after a Submit that died between its writes.
C24_SubmitAllOrNothing ==
    \A a \in AllAttempts :
        (\A w \in Workers :
            ~(/\ pc[w] \in {"submit_attempt", "submit_grade", "submit_mark",
                            "submit_append"}
              /\ request[w].user = a.user /\ request[w].quiz_id = a.quiz))
        => \/ /\ is_submitted(a) /\ a.score # NULL
              /\ InLedger(a.quiz, a.user)
           \/ /\ ~is_submitted(a) /\ a.score = NULL
              /\ ~InLedger(a.quiz, a.user)

\* C25: when two SaveAnswer requests of one participant for one quiz that ran
\* at the same time have both succeeded, and no other request was made, the
\* stored response map of the Attempt holds the saved option under the
\* question of each of them, and under a question they share it holds the
\* option of one of the two.
C25_ConcurrentSavesBothKept ==
    \A w, v \in Workers :
        (/\ w # v
         /\ DoneView(w, "AttemptSaveView") /\ response[w].status = "OK"
         /\ DoneView(v, "AttemptSaveView") /\ response[v].status = "OK"
         /\ request[w].user = request[v].user
         /\ request[w].quiz_id = request[v].quiz_id
         /\ issued = 2)
        => LET responses == AttemptFirst(request[w].user, request[w].quiz_id).responses
           IN  IF request[w].question_id # request[v].question_id
               THEN /\ responses[request[w].question_id] = request[w].selected_option
                    /\ responses[request[v].question_id] = request[v].selected_option
               ELSE responses[request[w].question_id]
                      \in {request[w].selected_option, request[v].selected_option}

\* C26: no step of a Status changes the Attempt table; at its lookup it takes
\* already_submitted to be true exactly when the caller's Attempt exists and
\* is Submitted, and ended to be now > ends_on for the instant it read; when
\* ended is true and the quiz it loaded is active it writes is_active = false
\* before answering; and the answer never has ended = true with
\* is_active = true.
C26_StatusReadOnlyProjection ==
    [][\A w \in Workers :
          /\ (\/ Accepts("AttemptStatusView")
              \/ (pc[w] \in {"status_attempt", "status_save"} /\ pc'[w] # pc[w]))
             => Attempt_objects' = Attempt_objects
          /\ (pc[w] = "status_attempt" /\ pc'[w] # pc[w])
             => LET attempt == AttemptFirst(request[w].user, request[w].quiz_id)
                    submitted == attempt # NoAttempt /\ is_submitted(attempt)
                    ended == frame[w].now > ends_on[request[w].quiz_id]
                IN  IF ended /\ frame[w].quiz.is_active
                    THEN /\ pc'[w] = "status_save"
                         /\ frame'[w].already_submitted = submitted
                    ELSE /\ pc'[w] = "done"
                         /\ response'[w].data.already_submitted = submitted
                         /\ response'[w].data.quiz_ended = ended
          /\ (pc[w] = "status_save" /\ pc'[w] # pc[w])
             => /\ ~Quiz_objects'[request[w].quiz_id].is_active
                /\ response'[w].data.already_submitted = frame[w].already_submitted
                /\ response'[w].data.quiz_ended
          /\ (pc'[w] = "done" /\ request'[w].view = "AttemptStatusView")
             => /\ response'[w].status = "OK"
                /\ response'[w].data.quiz_ended
                     = (response'[w].data.now > ends_on[request'[w].quiz_id])
                /\ ~(response'[w].data.quiz_ended /\ response'[w].data.is_active)]_vars

\* A Status of a participant whose Attempt is Submitted has found the quiz
\* ended and active, has persisted is_active = false and has answered
\* ended, not active, already submitted.
C26_Witness ==
    \E w \in Workers :
        /\ DoneView(w, "AttemptStatusView")
        /\ response[w].data.quiz_ended
        /\ ~response[w].data.is_active
        /\ response[w].data.already_submitted
        /\ ~Quiz_objects[request[w].quiz_id].is_active
        /\ is_submitted(AttemptFirst(request[w].user, request[w].quiz_id))
        /\ \A v \in Workers \ {w} : ~DoneView(v, "AttemptStatusView")

\* C27: a SaveAnswer whose selected option is outside 1..4 is answered
\* InvalidOption at once and changes no Attempt (whatever the quiz, the
\* question id and the state of the caller's Attempt); and after every step
\* each value stored under a question id in the response map of any Attempt
\* is in 1..4.
C27_InvalidOptionRejected ==
    [][/\ (/\ Accepts("AttemptSaveView")
           /\ request'[Acceptor].selected_option \notin 1..4)
          => /\ pc'[Acceptor] = "done"
             /\ response'[Acceptor].status = "InvalidOption"
             /\ Attempt_objects' = Attempt_objects
       /\ \A p \in Pairs : \A i \in 1..Len(Attempt_objects'[p]) :
            \A question_id \in QuestionIds :
               LET selected == Attempt_objects'[p][i].responses[question_id]
               IN  selected # NoAnswer => selected \in 1..4]_vars

\* A SaveAnswer with option 5 was refused as InvalidOption although the
\* caller's Attempt is in progress and already holds a saved answer, which it
\* still holds.
C27_Witness ==
    \E w \in Workers :
        /\ DoneView(w, "AttemptSaveView")
        /\ request[w].selected_option = 5
        /\ response[w].status = "InvalidOption"
        /\ LET attempt == AttemptFirst(request[w].user, request[w].quiz_id)
           IN  /\ attempt # NoAttempt
               /\ ~is_submitted(attempt)
               /\ \E question_id \in QuestionIds :
                     attempt.responses[question_id] \in 1..4
        /\ \A v \in Workers \ {w} : pc[v] = "idle"

\* C28: the question list of every successful StartOrResume, served from the
\* cache or built on a miss, is the set of answer-stripped projections of
\* exactly the questions of the requested quiz: none of its entries belongs
\* to another quiz and none carries an answer field; and whatever the cache
\* holds for a quiz is that same list.
C28_CachedQuestionsOfQuiz ==
    /\ \A w \in Workers :
          (DoneView(w, "AttemptStartView") /\ response[w].status = "OK")
          => LET questions == response[w].data.questions
                 quiz_id == request[w].quiz_id
             IN  /\ questions
                      = {AttemptQuestionSerializer(q) : q \in QuizQuestions(quiz_id)}
                 /\ \A x \in questions :
                       /\ "answer" \notin DOMAIN x
                       /\ QuestionGet(x.question_id, quiz_id) # NoQuestion
    /\ \A q \in Quizzes :
          cache[q].hit
          => cache[q].value = {AttemptQuestionSerializer(x) : x \in QuizQuestions(q)}

\* A StartOrResume of quiz "qb" was served from the cache while the cache
\* also holds the list of quiz "qa", and the other worker's StartOrResume of
\* "qb" filled the cache on a miss: both returned the question of "qb".
C28_Witness ==
    \E w, v \in Workers :
        /\ DoneView(w, "AttemptStartView") /\ response[w].status = "OK"
        /\ DoneView(v, "AttemptStartView") /\ response[v].status = "OK"
        /\ request[w].quiz_id = "qb" /\ request[v].quiz_id = "qb"
        /\ request[w].cached /\ ~request[v].cached
        /\ response[w].data.questions = response[v].data.questions
        /\ response[w].data.questions # {}
        /\ cache["qa"].hit

\* C29: a StartOrResume that finds is_active false is answered Inactive at
\* once, at every instant: before ends_on, at ends_on and after it, where the
\* answer is Inactive and not Ended.
C29_InactiveTakesPrecedence ==
    [][(/\ Accepts("AttemptStartView")
        /\ ~Quiz_objects[request'[Acceptor].quiz_id].is_active)
       => /\ pc'[Acceptor] = "done"
          /\ response'[Acceptor].status = "Inactive"]_vars

\* Two StartOrResume requests on quizzes with is_active false were answered
\* Inactive: one made within the window of its quiz, the other after ends_on.
C29_Witness ==
    \E w, v \in Workers :
        /\ DoneView(w, "AttemptStartView") /\ response[w].status = "Inactive"
        /\ request[w].at <= ends_on[request[w].quiz_id]
        /\ request[w].at >= initiates_on[request[w].quiz_id]
        /\ DoneView(v, "AttemptStartView") /\ response[v].status = "Inactive"
        /\ request[v].at > ends_on[request[v].quiz_id]
        /\ ~Quiz_objects[request[w].quiz_id].is_active
        /\ ~Quiz_objects[request[v].quiz_id].is_active

C31_SaveIgnoresWindow ==
    [][/\ (/\ Accepts("AttemptSaveView")
           /\ ValidOption(request'[Acceptor].selected_option)
           /\ LET attempt == AttemptFirst(request'[Acceptor].user,
                                          request'[Acceptor].quiz_id)
              IN  attempt # NoAttempt /\ ~is_submitted(attempt))
          => pc'[Acceptor] = "save_write"
       /\ \A w \in Workers :
            (pc[w] = "save_write" /\ pc'[w] # pc[w])
            => /\ pc'[w] = "done"
               /\ response'[w].status = "OK"
               /\ RowOf(Attempt_objects', frame[w].attempt.attempt_id)
                     .responses[request[w].question_id] = request[w].selected_option
       /\ (\/ Accepts("AttemptSaveView")
           \/ \E w \in Workers : pc[w] = "save_write" /\ pc'[w] # pc[w])
          => Quiz_objects' = Quiz_objects]_vars

\* All requests ran one after another on one worker; the last one, a
\* SaveAnswer, succeeded after a Status had found the quiz ended and had
\* persisted is_active = false, and the answer is stored in the caller's
\* InProgress Attempt.
C31_Witness ==
    \E w \in Workers :
        /\ DoneView(w, "AttemptSaveView") /\ response[w].status = "OK"
        /\ \A v \in Workers \ {w} : pc[v] = "idle"
        /\ ~Quiz_objects[request[w].quiz_id].is_active
        /\ now > ends_on[request[w].quiz_id]
        /\ LET attempt == AttemptFirst(request[w].user, request[w].quiz_id)
           IN  /\ ~is_submitted(attempt)
               /\ attempt.responses[request[w].question_id]
                     = request[w].selected_option

C33_BreakdownsOnlySubmitted ==
    \A w \in Workers :
        (DoneView(w, "AttemptUserResponseView") /\ response[w].status = "OK")
        => \A b \in response[w].data :
              b.submitted_at # NULL /\ b.score # NULL

\* C34: no step of a SaveAnswer, of a Submit or of a listResponses changes
\* the persisted is_active of any quiz; and whenever a step changes the
\* is_active of a quiz, the change is from true to false, the clock is past
\* the quiz's ends_on, and the step is the write of a Status of that quiz (a
\* StartOrResume makes no such change at all).
C34_OnlyAdmissionFlips ==
    [][/\ (\/ Accepts("AttemptSaveView")
           \/ Accepts("AttemptSubmitView")
           \/ Accepts("AttemptUserResponseView")
           \/ \E w \in Workers :
                /\ pc[w] \in {"save_write", "submit_attempt", "submit_grade",
                              "submit_mark", "submit_append"}
                /\ pc'[w] # pc[w])
          => \A q \in Quizzes : Quiz_objects'[q].is_active = Quiz_objects[q].is_active
       /\ \A q \in Quizzes :
            Quiz_objects'[q].is_active # Quiz_objects[q].is_active
            => /\ Quiz_objects[q].is_active /\ ~Quiz_objects'[q].is_active
               /\ now > ends_on[q]
               /\ \E w \in Workers :
                     /\ pc[w] = "status_save" /\ pc'[w] = "done"
                     /\ request[w].quiz_id = q]_vars

\* A Status has found the quiz ended and has persisted is_active = false,
\* and a listResponses of the same quiz has answered with the breakdown of a
\* Submitted Attempt: the Submit before it and the listResponses have run and
\* the only change of the flag is the one of the Status.
C34_Witness ==
    \E w, v \in Workers :
        /\ DoneView(w, "AttemptStatusView")
        /\ response[w].data.quiz_ended /\ ~response[w].data.is_active
        /\ DoneView(v, "AttemptUserResponseView") /\ response[v].status = "OK"
        /\ request[v].quiz_id = request[w].quiz_id
        /\ \E b \in response[v].data : b.submitted_at # NULL
        /\ ~Quiz_objects[request[w].quiz_id].is_active
        /\ now > ends_on[request[w].quiz_id]

\* C35: a step of a Start, Save, Status or Submit by participant p on quiz q
\* leaves the Attempts of every other (participant, quiz) pair as they were,
\* and leaves the ledger and the is_active of every other quiz as they were.
C35_PairsIndependent ==
    [][\A w \in Workers :
          (\/ pc'[w] # pc[w]
           \/ (issued' # issued /\ w = Acceptor))
          => LET p == request'[w].user
                 q == request'[w].quiz_id
             IN  /\ \A pair \in Pairs \ {<<p, q>>} :
                        Attempt_objects'[pair] = Attempt_objects[pair]
                 /\ \A q2 \in Quizzes \ {q} :
                        Quiz_objects'[q2] = Quiz_objects[q2]]_vars

\* One participant has saved an answer on a quiz and another has submitted
\* the same quiz: the first Attempt is InProgress with its answer, the second
\* is Submitted with nothing saved, and the other quiz has an empty ledger.
C35_Witness ==
    \E w, v \in Workers :
        /\ DoneView(w, "AttemptSaveView") /\ response[w].status = "OK"
        /\ DoneView(v, "AttemptSubmitView") /\ response[v].status = "OK"
        /\ request[w].quiz_id = request[v].quiz_id
        /\ request[w].user # request[v].user
        /\ LET a == AttemptFirst(request[w].user, request[w].quiz_id)
               b == AttemptFirst(request[v].user, request[v].quiz_id)
           IN  /\ ~is_submitted(a)
               /\ a.responses[request[w].question_id] = request[w].selected_option
               /\ is_submitted(b)
               /\ b.responses = EmptyResponses
        /\ \A q2 \in Quizzes \ {request[w].quiz_id} :
              Quiz_objects[q2].user_scores = <<>>

\* C36: every quiz row that quiz creation has stored has
\* ends_on > initiates_on, and a creation whose body has
\* ends_on <= initiates_on stores no row.
C36_WindowOrdered ==
    \A quiz \in Quiz_rows : quiz.ends_on > quiz.initiates_on

\* C37: every entry {p, s} of the ledger of a quiz belongs to an Attempt of p
\* on that quiz that is Submitted with stored score s; no participant has two
\* entries in the ledger of one quiz; and when no Submit of the quiz is under
\* way, the ledger has as many entries as the quiz has Submitted Attempts.
C37_LedgerSound ==
    \A q \in Quizzes :
        LET ledger == Quiz_objects[q].user_scores
        IN  /\ \A i \in 1..Len(ledger) :
                  \E a \in AttemptsOfQuiz(q) :
                      /\ a.user = ledger[i].user_id
                      /\ is_submitted(a)
                      /\ a.score = ledger[i].score
            /\ \A i, j \in 1..Len(ledger) :
                  ledger[i].user_id = ledger[j].user_id => i = j
            /\ (\A w \in Workers :
                   ~(/\ pc[w] \in {"submit_attempt", "submit_grade", "submit_mark",
                                   "submit_append"}
                     /\ request[w].quiz_id = q))
               => Len(ledger)
                    = Cardinality({a \in AttemptsOfQuiz(q) : is_submitted(a)})

\* C38: every Submitted Attempt has a score from 0 up to the smaller of the
\* number of entries of its response map and the number of questions of its
\* quiz; in particular a Submitted Attempt with an empty response map has
\* score 0.
C38_ScoreBounded ==
    \A a \in AllAttempts :
        is_submitted(a)
        => LET entries == Cardinality({qid \in QuestionIds : a.responses[qid] # NoAnswer})
               questions == Cardinality(QuizQuestions(a.quiz))
           IN  /\ a.score >= 0
               /\ a.score <= entries
               /\ a.score <= questions

\* C39: a Submit that finds the caller's Attempt InProgress goes on whatever
\* is_active, ends_on, the clock and time_limit_minutes are: it grades, then
\* sets submitted_at, then writes a ledger whose last entry is the caller's
\* with the score it computed, and answers OK.  And the only step that sets
\* the submitted_at of an Attempt is the marking step of a Submit made by the
\* participant of that Attempt for its quiz.
C39_SubmitIgnoresLimits ==
    [][/\ \A w \in Workers :
            /\ (/\ pc[w] = "submit_attempt" /\ pc'[w] # pc[w]
                /\ LET attempt == AttemptFirst(request[w].user, request[w].quiz_id)
                   IN  attempt # NoAttempt /\ ~is_submitted(attempt))
               => pc'[w] = "submit_grade"
            /\ (pc[w] = "submit_grade" /\ pc'[w] # pc[w])
               => /\ pc'[w] = "submit_mark"
                  /\ frame'[w].final_score
                       = GradeOf(frame[w].attempt.responses, frame[w].attempt.quiz)
            /\ (pc[w] = "submit_mark" /\ pc'[w] # pc[w])
               => /\ pc'[w] = "submit_append"
                  /\ RowOf(Attempt_objects', frame[w].attempt.attempt_id).submitted_at = now
            /\ (pc[w] = "submit_append" /\ pc'[w] # pc[w])
               => LET ledger == Quiz_objects'[request[w].quiz_id].user_scores
                  IN  /\ pc'[w] = "done" /\ response'[w].status = "OK"
                      /\ Len(ledger) > 0
                      /\ ledger[Len(ledger)]
                           = [user_id |-> request[w].user,
                              score |-> frame[w].final_score]
       /\ \A a \in AllAttempts :
            (/\ ~is_submitted(a)
             /\ \E b \in AllAttempts' : b.attempt_id = a.attempt_id /\ is_submitted(b))
            => \E w \in Workers :
                  /\ pc[w] = "submit_mark" /\ pc'[w] = "submit_append"
                  /\ request[w].view = "AttemptSubmitView"
                  /\ request[w].user = a.user /\ request[w].quiz_id = a.quiz]_vars

\* All requests ran one after another on one worker; the last one, a Submit,
\* succeeded after a Status had persisted is_active = false: the Attempt was
\* submitted after ends_on and more than time_limit_minutes after its start,
\* and the ledger holds the participant's entry.
C39_Witness ==
    \E w \in Workers :
        /\ DoneView(w, "AttemptSubmitView") /\ response[w].status = "OK"
        /\ \A v \in Workers \ {w} : pc[v] = "idle"
        /\ ~Quiz_objects[request[w].quiz_id].is_active
        /\ LET a == AttemptFirst(request[w].user, request[w].quiz_id)
           IN  /\ is_submitted(a)
               /\ a.submitted_at > ends_on[a.quiz]
               /\ a.submitted_at - a.started_at > time_limit_minutes[a.quiz]
               /\ a.score # NULL
        /\ InLedger(request[w].quiz_id, request[w].user)

\* C40: every listResponses made with a participant id by a caller who is not
\* the quiz's creator has been answered Forbidden with no data, whether the
\* id is the caller's own, another user's or the id of no user; so every
\* other answer a non-creator has received from listResponses (a breakdown,
\* NotSubmitted, a not-found answer) was to a request without a participant
\* id.
C40_ForbiddenBeforeLookup ==
    \A w \in Workers :
        (/\ DoneView(w, "AttemptUserResponseView")
         /\ creator[request[w].quiz_id] # request[w].user)
        => /\ request[w].user_id # ""
              => /\ response[w].status = "Forbidden"
                 /\ response[w].data = <<>>
           /\ response[w].status # "Forbidden" => request[w].user_id = ""

\* A participant who is not the creator and whose Attempt is Submitted has
\* asked for their own id and was answered Forbidden, and has asked for the
\* id of no user and was answered Forbidden.
C40_Witness ==
    \E w, v \in Workers :
        /\ DoneView(w, "AttemptUserResponseView")
        /\ DoneView(v, "AttemptUserResponseView")
        /\ request[w].user = request[v].user
        /\ request[w].quiz_id = request[v].quiz_id
        /\ creator[request[w].quiz_id] # request[w].user
        /\ request[w].user_id = request[w].user
        /\ request[v].user_id \notin Users \cup {""}
        /\ response[w].status = "Forbidden"
        /\ response[v].status = "Forbidden"
        /\ is_submitted(AttemptFirst(request[w].user, request[w].quiz_id))
====
